---- MODULE Spec2Model ----
(***************************************************************************)
(* Novel Weaver Studio: the phase controllers (Temporal workflows) of      *)
(* backend/src/workflows and their APPROVE/REVISE review loops.            *)
(*                                                                         *)
(* One behaviour follows one workflow execution of one controller kind.    *)
(* A generated text is identified by the index of the generation call that *)
(* produced it (llm_calls), so "the draft under review", "the draft a      *)
(* regeneration received" and "the draft that was saved" can be compared.  *)
(* Decision texts are sequences of characters, classified as the code      *)
(* does: strip(), upper(), substring test.                                 *)
(***************************************************************************)
EXTENDS Integers, Sequences, FiniteSets, TLC

(***************************************************************************)
(* Bounds of the model.                                                    *)
(***************************************************************************)
\* longest inbox (Phase7SingleChapterWorkflow._human_inputs) explored
MaxInbox == 2
\* client requests (chapter executions, API calls) issued against one project
MaxRequests == 2
\* lines of an outline document
MaxLines == 3
\* rewrites of the context bundle
MaxEdits == 2
\* characters of an artifact path
MaxPath == 4
\* runs of the step workflows of one chapter
MaxRuns == 6
\* attempts followed of an activity whose retry policy sets no limit
MaxAttempts == 4

(***************************************************************************)
(* Text: str.strip(), str.upper() and the `in` substring test.             *)
(***************************************************************************)
UpperChar(c) ==
    CASE c = "a" -> "A" [] c = "c" -> "C" [] c = "e" -> "E" [] c = "i" -> "I"
      [] c = "k" -> "K" [] c = "l" -> "L" [] c = "m" -> "M" [] c = "o" -> "O"
      [] c = "p" -> "P" [] c = "r" -> "R" [] c = "s" -> "S" [] c = "t" -> "T"
      [] c = "u" -> "U" [] c = "v" -> "V" [] c = "y" -> "Y"
      [] OTHER -> c

Upper(s) == [i \in 1..Len(s) |-> UpperChar(s[i])]

RECURSIVE LStrip(_)
LStrip(s) == IF s # <<>> /\ Head(s) = " " THEN LStrip(Tail(s)) ELSE s

RECURSIVE RStrip(_)
RStrip(s) ==
    IF s # <<>> /\ s[Len(s)] = " " THEN RStrip(SubSeq(s, 1, Len(s) - 1)) ELSE s

Strip(s) == RStrip(LStrip(s))

\* Python `sub in s`
Contains(s, sub) ==
    \E i \in 1..(Len(s) - Len(sub) + 1) : SubSeq(s, i, i + Len(sub) - 1) = sub

APPROVE == <<"A", "P", "P", "R", "O", "V", "E">>
REVISE  == <<"R", "E", "V", "I", "S", "E">>
SKIP    == <<"S", "K", "I", "P">>
CUSTOM  == <<"C", "U", "S", "T", "O", "M">>

\* decision.get("decision", "").strip().upper()
DecisionText(raw) == Upper(Strip(raw))

(***************************************************************************)
(* Inbound responses: Dict[str, str].  A dict is a function over Keys      *)
(* whose value is <<>> when the key is absent and <<v>> when it maps to v. *)
(***************************************************************************)
Keys == {"decision", "revision_notes", "custom_notes"}

EmptyDict == [k \in Keys |-> <<>>]

Has(d, k) == d[k] # <<>>

\* dict.get(k, default)
Get(d, k, default) == IF Has(d, k) THEN d[k][1] ELSE default

\* any(k in item for k in expected_outputs)
HasAnyKey(d, expected) == \E k \in expected : Has(d, k)

\* {k: v for k, v in received.items() if k not in expected_outputs}
Without(d, expected) == [k \in Keys |-> IF k \in expected THEN <<>> ELSE d[k]]

Dict1(k, v) == [EmptyDict EXCEPT ![k] = <<v>>]
Dict2(k1, v1, k2, v2) == [EmptyDict EXCEPT ![k1] = <<v1>>, ![k2] = <<v2>>]

\* The texts a reviewer types into the `decision` field.
TxtApprove == <<"a", "p", "p", "r", "o", "v", "e">>
TxtRevise  == <<" ", "R", "e", "v", "i", "s", "e", " ">>
TxtOk      == <<"o", "k">>
TxtBoth    == <<"r", "e", "v", "i", "s", "e", ",", "a", "p", "p", "r", "o", "v", "e">>
TxtSkip    == <<"s", "k", "i", "p">>
TxtCustom  == <<"C", "u", "s", "t", "o", "m">>

ReviewTexts == {TxtApprove, TxtRevise, TxtOk, TxtBoth}

(***************************************************************************)
(* The controller kinds: one per review loop.                              *)
(***************************************************************************)
SingleSlotKinds ==
    {"series_outline", "call_sheet", "characters", "worldbuilding",
     "story_bible", "chapter_outline"}

Kinds == SingleSlotKinds \cup {"context_bundle", "final_chapter"}

\* the two iteration counts exchanged between the loops
max_revisions_swapped(k) == IF k \in {"story_bible", "final_chapter"} THEN 5 ELSE 3

\* max_revisions of each loop
max_revisions(k) == IF k \in {"story_bible", "final_chapter"} THEN 3 ELSE 5

\* hours of the wait_condition timeout of every review wait
ReviewWaitHours == 24

\* execute_phase: execution_timeout / run_timeout of the workflow it starts
ExecutionTimeoutHours(k) == IF k = "final_chapter" THEN 2 ELSE 1

\* the `_current_status` label set before a regeneration call
RevisingStatus(k) ==
    CASE k = "series_outline"  -> "revising_outline"
      [] k = "call_sheet"      -> "revising_call_sheet"
      [] k = "characters"      -> "revising_characters"
      [] k = "worldbuilding"   -> "revising_worldbuilding"
      [] k = "story_bible"     -> "generating_story_bible"
      [] k = "final_chapter"   -> "running"
      [] OTHER                 -> "revising"

\* the artifact path the reviewed draft is saved to
ReviewedPath(k) ==
    CASE k = "context_bundle"  -> "phase1_outputs/context_bundle.md"
      [] k = "series_outline"  -> "phase2_outputs/series_outline.md"
      [] k = "call_sheet"      -> "phase3_outputs/call_sheet.md"
      [] k = "characters"      -> "phase4_outputs/characters.md"
      [] k = "worldbuilding"   -> "phase4_outputs/worldbuilding.md"
      [] k = "story_bible"     -> "phase5_outputs/story_bible.md"
      [] k = "chapter_outline" -> "phase6_outputs/outline.md"
      [] OTHER                 -> "phase7_outputs/chapter_N/final.md"

Llm(out, st)  == [op |-> "llm", arg |-> out, status |-> st]
Save(path, src) == [op |-> "save", arg |-> path, src |-> src, status |-> ""]

(***************************************************************************)
(* What run() does after the review loop has returned the draft, in order. *)
(* An "llm" step names its result; a "save" step names the path and the    *)
(* result (or "draft") it writes.  status "" leaves _current_status alone. *)
(***************************************************************************)
PostSteps(k, audit) ==
    CASE k = "context_bundle" ->
           << [Save("phase1_outputs/context_bundle.md", "draft") EXCEPT !.status = ""] >>
      [] k = "series_outline" ->
           << Llm("constraints_json", "extracting_constraints") >>
           \o (IF audit THEN << Llm("risk_audit", "running_risk_audit") >> ELSE << >>)
           \o << Save("phase2_outputs/series_outline.md", "draft"),
                 Save("phase2_outputs/series_constraints.json", "constraints_json") >>
           \o (IF audit THEN << Save("phase2_outputs/series_outline_audit.md", "risk_audit") >>
                        ELSE << >>)
           \o << Llm("updated_context_bundle", "updating_context_bundle"),
                 Save("phase1_outputs/context_bundle.md", "updated_context_bundle") >>
      [] k = "call_sheet" ->
           << Llm("call_sheet_json", "extracting_json"),
              Save("phase3_outputs/call_sheet.md", "draft"),
              Save("phase3_outputs/call_sheet.json", "call_sheet_json"),
              Llm("updated_context_bundle", "updating_context_bundle"),
              Save("phase1_outputs/context_bundle.md", "updated_context_bundle") >>
      [] k = "characters" ->
           << Llm("characters_json", ""),
              Save("phase4_outputs/characters.md", "draft"),
              Save("phase4_outputs/characters.index.json", "characters_json") >>
      [] k = "worldbuilding" ->
           << Llm("worldbuilding_json", ""),
              Save("phase4_outputs/worldbuilding.md", "draft"),
              Save("phase4_outputs/worldbuilding.index.json", "worldbuilding_json") >>
      [] k = "story_bible" -> << >>
      [] k = "chapter_outline" ->
           << [Save("phase6_outputs/outline.md", "draft") EXCEPT !.status = "saving_outline"],
              Llm("updated_context_bundle", "updating_context_bundle"),
              [Save("phase1_outputs/context_bundle.md", "updated_context_bundle")
                  EXCEPT !.status = "saving_context_bundle"],
              [op |-> "parse", arg |-> "chapters_parsed", status |-> "parsing_outline"] >>
      [] OTHER -> \* final_chapter
           << Save("phase7_outputs/chapter_N/final.md", "draft"),
              Save("phase1_outputs/context_bundle.md", "draft"),
              [op |-> "manifest", arg |-> "project.json", status |-> ""] >>

(***************************************************************************)
(* What run() does before the reviewed draft is generated, in order.       *)
(***************************************************************************)
PreSteps(k) ==
    CASE k = "context_bundle" ->
           << Llm("genre_tropes", "researching"),
              Save("phase1_outputs/genre_tropes.md", "genre_tropes"),
              Llm("style_sheet", "generating_stylesheets"),
              Save("phase1_outputs/style_sheet.md", "style_sheet") >>
      [] k = "final_chapter" ->
           << Llm("scene_brief", ""),
              Save("phase7_outputs/chapter_N/scene_brief.md", "scene_brief"),
              Llm("first_draft", ""),
              Save("phase7_outputs/chapter_N/first_draft.md", "first_draft"),
              Llm("improvement_plan", ""),
              Save("phase7_outputs/chapter_N/improvement_plan.md", "improvement_plan") >>
      [] OTHER -> << >>

\* whether run() sets _current_status = "completed" before returning
SetsCompleted(k) ==
    k \in {"series_outline", "call_sheet", "story_bible", "chapter_outline"}

Paths ==
    {"phase1_outputs/genre_tropes.md", "phase1_outputs/style_sheet.md",
     "phase1_outputs/context_bundle.md",
     "phase2_outputs/series_outline.md", "phase2_outputs/series_constraints.json",
     "phase2_outputs/series_outline_audit.md",
     "phase3_outputs/call_sheet.md", "phase3_outputs/call_sheet.json",
     "phase4_outputs/characters.md", "phase4_outputs/characters.index.json",
     "phase4_outputs/worldbuilding.md", "phase4_outputs/worldbuilding.index.json",
     "phase5_outputs/story_bible.md",
     "phase6_outputs/outline.md",
     "phase7_outputs/chapter_N/scene_brief.md", "phase7_outputs/chapter_N/first_draft.md",
     "phase7_outputs/chapter_N/improvement_plan.md", "phase7_outputs/chapter_N/final.md",
     "project.json"}

Results ==
    {"draft", "constraints_json", "risk_audit", "updated_context_bundle",
     "call_sheet_json", "characters_json", "worldbuilding_json", "chapters_parsed",
     "genre_tropes", "style_sheet", "scene_brief", "first_draft", "improvement_plan"}

\* the `_current_status` label set before the initial generation call
GeneratingStatus(k) ==
    CASE k = "series_outline"  -> "generating_outline"
      [] k = "call_sheet"      -> "generating_call_sheet"
      [] k = "chapter_outline" -> "generating_outline"
      [] k = "story_bible"     -> "generating_story_bible"
      [] k = "context_bundle"  -> "generating_context_bundle"
      [] OTHER                 -> ""

\* the responses a client may send with human_input_received
Payloads(k) ==
    IF k = "final_chapter"
    THEN {Dict1("decision", t) : t \in {TxtApprove, TxtRevise, TxtSkip, TxtCustom}}
         \cup {Dict1("revision_notes", "n2"), Dict1("custom_notes", "n1"),
               Dict2("decision", TxtRevise, "revision_notes", "n1")}
    ELSE {Dict1("decision", t) : t \in ReviewTexts}
         \cup {Dict1("revision_notes", "n1"),
               Dict2("decision", TxtRevise, "revision_notes", "n2")}

(***************************************************************************)
(* State.                                                                  *)
(***************************************************************************)
VARIABLES
    kind,                     \* which controller this execution runs
    auto_approve,             \* input.auto_approve (auto_approve_final in phase 7)
    auto_approve_improvements,\* Phase7Input.auto_approve_improvements
    inputs_complete,          \* Phase1Input carries genre, book_title and initial_ideas
    run_risk_audit,           \* Phase2Input.run_risk_audit
    deadline,                 \* execution timeout in hours, 0 when the start set none
    wfState,                  \* "running", "completed", "failed", "timed_out"
    pc,                       \* where run() is suspended
    step,                     \* index of the next step of PostSteps
    revision_count,           \* loop variable of `for ... in range(max_revisions)`
    results,                  \* local variables of run(): name -> text id (0 = unset)
    llm_calls,                \* generation calls completed so far
    current_status,           \* self._current_status
    pending_content,          \* self._pending_content: <<>> or <<prompt, draft id>>
    pending_description,      \* self._pending_description: <<>> or <<text>>
    pending_expected_outputs, \* self._pending_expected_outputs (None and [] are {})
    human_input,              \* self._human_input: <<>> (None) or <<dict>>
    human_inputs,             \* Phase7SingleChapterWorkflow._human_inputs
    user_input,               \* Phase1 self._user_input: <<>> (None) or <<inputs>>
    context_approval,         \* Phase1 self._context_approval: <<>> (None) or <<text>>
    self_revision_notes,      \* Phase1 self._revision_notes: <<>> (None) or <<text>>
    custom_notes,             \* local `custom_notes` of _process_improvements
    decision,                 \* local `decision`: the response the decision wait returned
    revision_notes,           \* local `revision_notes`
    last_regen,               \* <<>> or <<[draft, notes]>>: arguments of the last regeneration call
    last_apply,               \* <<>> or <<[draft, plan, notes]>>: arguments of the revision call of _process_improvements
    decision_requests,        \* review requests published by the loop
    notes_requests,           \* revision-notes requests published by the loop
    regenerations,            \* regeneration calls completed by the loop
    written,                  \* path -> text id written by this execution (0 = not written)
    age,                      \* hours since the execution started
    waited,                   \* hours since the current request was published
    wait_timed_out            \* a wait_condition timeout has fired

\* The project's files and the executions of Phase7SingleChapterWorkflow that
\* share them.
VARIABLES
    chapter_number,           \* Phase7Input.chapter_number of each execution (0 = not started)
    ipc,                      \* where each execution's run() is
    context_bundle,           \* local `context_bundle` of run(): the bundle text it loaded (empty outside run())
    act,                      \* state of each save_artifact_activity of each execution
    upd,                      \* state of each novel_update_manifest call
    manifest,                 \* local `manifest` of novel_update_manifest: the document it read (empty outside a call)
    files,                    \* chapter artifacts: <<chapter, name>> -> file
    bundle_file,              \* phase1_outputs/context_bundle.md
    project_json              \* project.json

\* What the phase inferencer of the API reads, and what it returned.
VARIABLES
    exists,                   \* artifact paths novel_read_text finds
    state,                    \* manifest["state"]: chapters, total_chapters and the stored flags
    inferred                  \* <<>> or <<result>> of the last _infer_project_phase_state call

\* One call of a function of the vault or of the API, apart from the workflows.
VARIABLES
    call,                     \* the arguments of the call
    ret,                      \* <<>> or <<what the call returned>>
    outline_md                \* phase5_outputs/outline.md: <<>> or <<its lines>>

\* Artifacts written by the API and by the chapter-writing controller.
VARIABLES
    bundle_md,                \* text of phase1_outputs/context_bundle.md: its lines, each a sequence of characters
    edits,                    \* how many times that text was rewritten
    touched                   \* what novel_write_text has written: "artifact", "project.json", "outside"

\* One run() of a workflow followed activity by activity, and the artifacts
\* the runs followed read and write.
VARIABLES
    workflow,                 \* class name of the workflow whose run() is followed ("" = none)
    suspended_at,             \* the call run() is suspended on: an index into the workflow's calls
    attempt,                  \* attempts of that activity started so far
    outcome,                  \* "running", "completed", "failed" (run() raised a failure), "blocked" (a workflow task fails)
    locals,                   \* local variables of run(): name -> value
    artifacts                 \* path -> <<>> (no such file) or <<content>>

vaultVars ==
    <<chapter_number, ipc, context_bundle, act, upd, manifest, files, bundle_file,
      project_json>>
inferVars == <<exists, state, inferred>>
textVars == <<bundle_md, edits, touched>>
callVars == <<call, ret, outline_md, textVars>>
runVars == <<workflow, suspended_at, attempt, outcome, locals, artifacts>>
storeVars == <<vaultVars, inferVars, callVars, runVars>>

controllerVars ==
    <<kind, auto_approve, auto_approve_improvements, inputs_complete, run_risk_audit,
      deadline, wfState, pc, step, revision_count,
      results, llm_calls, current_status, pending_content, pending_description,
      pending_expected_outputs, human_input, human_inputs, user_input, context_approval,
      self_revision_notes, custom_notes, decision, revision_notes, last_regen, last_apply,
      decision_requests, notes_requests, regenerations, written, age, waited,
      wait_timed_out>>

vars == <<controllerVars, storeVars>>

inputVars ==
    <<kind, auto_approve, auto_approve_improvements, inputs_complete, run_risk_audit,
      deadline>>
slotVars == <<human_input, human_inputs, user_input, context_approval, self_revision_notes>>
pendingVars == <<pending_content, pending_description, pending_expected_outputs>>
localVars == <<decision, revision_notes, custom_notes, last_regen, last_apply>>
outVars == <<results, llm_calls, written>>
countVars == <<decision_requests, notes_requests, regenerations>>
clockVars == <<age, waited, wait_timed_out>>

Running == wfState = "running"
WaitPcs == {"wait_inputs", "wait_improve", "wait_custom", "wait_decision", "wait_notes"}

(***************************************************************************)
(* The phase inferencer of the API (_infer_project_phase_state).           *)
(***************************************************************************)
\* a path below the project directory; chapter paths carry the chapter number
Path(dir, file) == <<dir, 0, file>>
ChapterFinal(dir, n) == <<dir, n, "final.md">>

Phase1Artifacts ==
    {Path("phase1_outputs", "genre_tropes.md"), Path("phase1_outputs", "style_sheet.md"),
     Path("phase1_outputs", "context_bundle.md")}
Phase2Artifacts == {Path("phase2_outputs", "series_outline.md")}
BundlePath == Path("phase1_outputs", "context_bundle.md")
\* every path the inferencer probes for the chapters that can have a final
InferPaths ==
    Phase1Artifacts \cup Phase2Artifacts
        \cup {Path("phase3_outputs", "call_sheet.md"),
              Path("phase4_outputs", "characters.md"),
              Path("phase4_outputs", "worldbuilding.md"),
              Path("phase5_outputs", "story_bible.md"),
              Path("phase6_outputs", "outline.md"), Path("phase5_outputs", "outline.md"),
              ChapterFinal("phase7_outputs", 1), ChapterFinal("phase6_outputs", 1),
              Path("exports", "FINAL_MANUSCRIPT.md")}

\* a chapter entry of state["chapters"]: <<>> has no "number", <<n>> has number n
ChapterLists == {<<>>, << <<1>> >>, << <<>>, <<1>> >>, << <<1>>, <<2>> >>, << <<1>>, <<1>> >>}
\* state["total_chapters"]: <<>> is missing or no int, <<n>> is the int n
TotalChapters == {<<>>, <<0>>, <<1>>, <<2>>}
Phases == 1..8
PhaseList == [p \in Phases |-> p]

artifact_exists(present, path) == path \in present

\* total_chapters falls back to len(chapters_data)
total_chapters_of(st) ==
    IF st.total_chapters = <<>> \/ st.total_chapters[1] <= 0
    THEN Len(st.chapters)
    ELSE st.total_chapters[1]

\* the loop over chapters_data: every entry with a number and a final counts
chapters_completed_of(present, st) ==
    Cardinality({k \in 1..Len(st.chapters) :
        /\ st.chapters[k] # <<>>
        /\ \/ artifact_exists(present, ChapterFinal("phase7_outputs", st.chapters[k][1]))
           \/ artifact_exists(present, ChapterFinal("phase6_outputs", st.chapters[k][1]))})

has_outline(present) ==
    \/ artifact_exists(present, Path("phase6_outputs", "outline.md"))
    \/ artifact_exists(present, Path("phase5_outputs", "outline.md"))

phase_completed_map(present, st) ==
    [p \in Phases |->
        CASE p = 1 -> \A a \in Phase1Artifacts : artifact_exists(present, a)
          [] p = 2 -> artifact_exists(present, Path("phase2_outputs", "series_outline.md"))
          [] p = 3 -> artifact_exists(present, Path("phase3_outputs", "call_sheet.md"))
          [] p = 4 -> /\ artifact_exists(present, Path("phase4_outputs", "characters.md"))
                      /\ artifact_exists(present, Path("phase4_outputs", "worldbuilding.md"))
          [] p = 5 -> \/ artifact_exists(present, Path("phase5_outputs", "story_bible.md"))
                      \/ has_outline(present)
          [] p = 6 -> has_outline(present)
          [] p = 7 -> /\ total_chapters_of(st) > 0
                      /\ chapters_completed_of(present, st) >= total_chapters_of(st)
          [] p = 8 -> artifact_exists(present, Path("exports", "FINAL_MANUSCRIPT.md"))]

\* [p for p in range(1, 9) if phase_completed_map.get(p, False)]
phases_completed_of(present, st) ==
    LET completed_map == phase_completed_map(present, st) IN
    SelectSeq(PhaseList, LAMBDA p : completed_map[p])

InList(list, x) == \E k \in 1..Len(list) : list[k] = x

\* a current phase that follows the highest completed phase
RECURSIVE after_last_completed(_, _)
after_last_completed(list, p) ==
    IF p < 1 THEN 1
    ELSE IF InList(list, p) THEN (IF p = 8 THEN 8 ELSE p + 1)
    ELSE after_last_completed(list, p - 1)

current_phase_after_last(list) == after_last_completed(list, 8)

\* next((p for p in range(1, 9) if p not in phases_completed), 8)
RECURSIVE first_not_in(_, _)
first_not_in(list, p) ==
    IF p > 8 THEN 8
    ELSE IF ~InList(list, p) THEN p
    ELSE first_not_in(list, p + 1)

current_phase_of(list) == first_not_in(list, 1)

\* an inferencer that trusts the stored flags once they are set
infer_project_phase_state_stored(present, st) ==
    LET completed == IF st.phases_completed # <<>> THEN st.phases_completed
                     ELSE phases_completed_of(present, st) IN
    [phases_completed |-> completed,
     current_phase |-> current_phase_of(completed),
     chapters_completed |-> chapters_completed_of(present, st)]

\* _infer_project_phase_state(project_id, state)
infer_project_phase_state(present, st) ==
    LET completed == phases_completed_of(present, st) IN
    [phases_completed |-> completed,
     current_phase |-> current_phase_of(completed),
     chapters_completed |-> chapters_completed_of(present, st)]

\* a manifest state of a project whose flags were never refreshed
FreshState(chapters, total) ==
    [chapters |-> chapters, total_chapters |-> total, phases_completed |-> <<>>,
     current_phase |-> 1]

\* the manifest as create_project writes it; nothing is read by the inferencer
ProjectStart ==
    /\ exists = {}
    /\ state = FreshState(<<>>, <<0>>)
    /\ inferred = <<>>

(***************************************************************************)
(* Functions of the vault and of the API called on their own.              *)
(***************************************************************************)
\* a text as str.split("\n") gives it: a sequence of lines, each a sequence of
\* characters; EMPTY is "", NL is "\n"
EMPTY == << <<>> >>
NL == << <<>>, <<>> >>
\* a + b
Cat(a, b) == SubSeq(a, 1, Len(a) - 1) \o << a[Len(a)] \o b[1] >> \o Tail(b)

\* str.rstrip(), str.lstrip(), str.strip() of a text
RECURSIVE rstrip(_)
rstrip(s) ==
    IF Len(s) > 1 /\ RStrip(s[Len(s)]) = <<>> THEN rstrip(SubSeq(s, 1, Len(s) - 1))
    ELSE [s EXCEPT ![Len(s)] = RStrip(@)]
RECURSIVE lstrip(_)
lstrip(s) ==
    IF Len(s) > 1 /\ LStrip(s[1]) = <<>> THEN lstrip(Tail(s))
    ELSE [s EXCEPT ![1] = LStrip(@)]
strip(s) == lstrip(rstrip(s))

\* the least index of a set of line indexes
First(found) == CHOOSE k \in found : \A j \in found : k <= j
\* s[:start of line k], s[start of line k:]
Before(s, k) == SubSeq(s, 1, k - 1) \o EMPTY
From(s, k) == SubSeq(s, k, Len(s))

\* str(n) of a one-digit number
Digit(n) == <<"0", "1", "2", "3", "4", "5", "6", "7", "8", "9">>[n + 1]
Spaces(chars) == \A k \in 1..Len(chars) : chars[k] = " "
\* f"## {header_text}"; a section name counts as one character
h2(header_text) == <<"#", "#", " ">> \o header_text
STYLE_SHEET == <<"STYLE_SHEET">>
DRAFTING_PROGRESS == <<"DRAFTING_PROGRESS">>

\* rf"(^##\s+{re.escape(header_text)}\s*$)" matches the line (no text drawn
\* below holds a bare "##" line, so \s+ stays inside the line)
header_re(line, header_text) ==
    \E i \in 3..Len(line), j \in 3..Len(line) :
        /\ i <= j
        /\ SubSeq(line, 1, 2) = <<"#", "#">>
        /\ Spaces(SubSeq(line, 3, i))
        /\ SubSeq(line, i + 1, j) = header_text
        /\ Spaces(SubSeq(line, j + 1, Len(line)))
\* r"^##\s+" matches at the start of the line
next_h2_re(line) == Len(line) >= 3 /\ SubSeq(line, 1, 2) = <<"#", "#">> /\ line[3] = " "

\* b[section_end:] for the section whose header is line k: the text from the
\* next level-2 heading on, "" when there is none
after_section(b, k) ==
    LET later == {j \in (k + 1)..Len(b) : next_h2_re(b[j])} IN
    IF later = {} THEN EMPTY ELSE From(b, First(later))

_upsert_context_bundle_section(bundle, header, content) ==
    LET header_text == Strip(header)
        new_content == strip(content)
        b == Cat(rstrip(bundle), NL)
        found == {k \in 1..Len(b) : header_re(b[k], header_text)}
        \* f"\n\n{h2}\n\n{new_content}\n"
        section == Cat(Cat(Cat(Cat(Cat(NL, NL), <<h2(header_text)>>), Cat(NL, NL)), new_content), NL)
    IN  IF header_text = <<>> \/ new_content = EMPTY THEN bundle
        ELSE IF found = {} THEN Cat(rstrip(Cat(rstrip(b), section)), NL)
        ELSE LET section_start == First(found)
                 updated == Cat(Cat(Cat(rstrip(Before(b, section_start)), section), NL),
                                lstrip(after_section(b, section_start)))
             IN  Cat(rstrip(updated), NL)

\* rf"^###\s+Chapter\s+{chapter_number}\b.*$" matches the line; the word
\* "Chapter" counts as one character
chapter_header_re(line, number) ==
    \E i \in 4..Len(line), j \in 4..Len(line) :
        /\ i + 2 <= j
        /\ SubSeq(line, 1, 3) = <<"#", "#", "#">>
        /\ Spaces(SubSeq(line, 4, i))
        /\ line[i + 1] = "Chapter"
        /\ Spaces(SubSeq(line, i + 2, j))
        /\ j + 1 <= Len(line) /\ line[j + 1] = Digit(number)
        /\ (j + 1 = Len(line) \/ line[j + 2] \in {" ", "#"})
\* r"^###\s+Chapter\s+" matches at the start of the line
next_ch_re(line) ==
    \E i \in 4..Len(line) :
        /\ SubSeq(line, 1, 3) = <<"#", "#", "#">>
        /\ Spaces(SubSeq(line, 4, i))
        /\ i + 2 <= Len(line) /\ line[i + 1] = "Chapter" /\ line[i + 2] = " "

\* f"### Chapter {chapter_number}\n\n{chapter_text}\n"
chapter_block(number, chapter_text) ==
    Cat(Cat(Cat(<< <<"#", "#", "#", " ", "Chapter", " ", Digit(number)>> >>, Cat(NL, NL)),
            chapter_text), NL)

\* Phase7SingleChapterWorkflow._update_context_bundle_with_chapter
_update_context_bundle_with_chapter(bundle_text, number, final_chapter) ==
    LET bundle == Cat(rstrip(bundle_text), NL)
        block == chapter_block(number, strip(final_chapter))
        found == {k \in 1..Len(bundle) : header_re(bundle[k], DRAFTING_PROGRESS)}
    IN  IF found = {}
        THEN Cat(rstrip(Cat(Cat(Cat(Cat(Cat(rstrip(bundle), Cat(NL, NL)),
                                        <<h2(DRAFTING_PROGRESS)>>), Cat(NL, NL)), block), NL)), NL)
        ELSE LET k == First(found)
                 \* section_match.end(1): \s*$ runs over the blank lines after the header
                 rest == {q \in (k + 1)..Len(bundle) : ~Spaces(bundle[q])}
                 after_header_idx == IF rest = {} THEN Len(bundle) ELSE First(rest) - 1
                 after == IF rest = {} THEN EMPTY ELSE after_section(bundle, k)
                 section_body ==
                     IF rest = {} THEN EMPTY
                     ELSE LET tail == SubSeq(bundle, after_header_idx + 1, Len(bundle))
                              later == {j \in 1..Len(tail) : next_h2_re(tail[j])}
                          IN  IF later = {} THEN EMPTY \o tail
                              ELSE EMPTY \o SubSeq(tail, 1, First(later) - 1) \o EMPTY
                 headers == {c \in 1..Len(section_body) : chapter_header_re(section_body[c], number)}
                 new_section_body ==
                     IF headers = {}
                     THEN Cat(Cat(Cat(rstrip(section_body), Cat(NL, NL)), block), NL)
                     ELSE LET ch_start == First(headers)
                              next_ch == {d \in (ch_start + 1)..Len(section_body) :
                                             next_ch_re(section_body[d])}
                              ch_rest == IF next_ch = {} THEN EMPTY
                                         ELSE From(section_body, First(next_ch))
                          IN  Cat(Cat(Cat(Cat(rstrip(Before(section_body, ch_start)), Cat(NL, NL)),
                                          block), NL), lstrip(ch_rest))
                 updated == Cat(Cat(Cat(Cat(SubSeq(bundle, 1, after_header_idx), NL),
                                        rstrip(new_section_body)), NL), lstrip(after))
             IN  Cat(rstrip(updated), NL)

\* the lines a stored bundle is made of, the stored bundles, the style sheets
\* the model call returns and the chapter texts a review approves
BundleLines ==
    {<<>>, h2(STYLE_SHEET), h2(<<"GENRE_TROPES">>), h2(DRAFTING_PROGRESS),
     <<"#", "#", "#", " ", "Chapter", " ", "1">>, <<"t">>}
Bundles == UNION {[1..n -> BundleLines] : n \in 1..MaxLines}
StyleSheets == {EMPTY, << <<"s">> >>, << <<"s">>, h2(<<"GENRE_TROPES">>), <<"g">> >>}
ChapterTexts == {<< <<"c">> >>, << h2(<<"Scene">>), <<"c">> >>}

\* The characters of an artifact path (the file name project.json counts as
\* one character) and the paths a request can carry
PathChars == {"/", "\\", ".", " ", "a", "project.json"}
ArtifactPaths == UNION {[1..n -> PathChars] : n \in 0..MaxPath}

\* str.split("/") and "/".join(parts)
RECURSIVE split(_)
split(chars) ==
    LET seps == {k \in 1..Len(chars) : chars[k] = "/"} IN
    IF seps = {} THEN <<chars>>
    ELSE <<SubSeq(chars, 1, First(seps) - 1)>>
             \o split(SubSeq(chars, First(seps) + 1, Len(chars)))
RECURSIVE join(_)
join(parts) ==
    IF parts = <<>> THEN <<>>
    ELSE IF Len(parts) = 1 THEN parts[1]
    ELSE parts[1] \o <<"/">> \o join(Tail(parts))

\* raw.replace("\\", "/")
replace(raw) == [k \in 1..Len(raw) |-> IF raw[k] = "\\" THEN "/" ELSE raw[k]]

\* a sanitizer that leaves backslashes as they are
_sanitize_relative_artifact_path_unreplaced(path) ==
    LET raw == Strip(path)
        parts == SelectSeq(split(raw), LAMBDA part : part \notin {<<>>, <<".">>})
    IN  IF raw = <<>> \/ raw[1] \in {"/", "\\"} \/ parts = <<>>
           \/ (\E k \in 1..Len(parts) : parts[k] = <<".", ".">>)
           \/ parts[Len(parts)] = <<"project.json">>
        THEN [raised |-> "ValueError", path |-> <<>>]
        ELSE [raised |-> "", path |-> join(parts)]

\* _sanitize_relative_artifact_path: the safe path, or ValueError
_sanitize_relative_artifact_path(path) ==
    LET raw == Strip(path)
        safe == replace(raw)
        parts == SelectSeq(split(safe), LAMBDA part : part \notin {<<>>, <<".">>})
    IN  IF raw = <<>> THEN [raised |-> "ValueError", path |-> <<>>]
        ELSE IF raw[1] \in {"/", "\\"} THEN [raised |-> "ValueError", path |-> <<>>]
        ELSE IF \E k \in 1..Len(parts) : parts[k] = <<".", ".">>
        THEN [raised |-> "ValueError", path |-> <<>>]
        ELSE IF parts = <<>> THEN [raised |-> "ValueError", path |-> <<>>]
        ELSE IF parts[Len(parts)] = <<"project.json">>
        THEN [raised |-> "ValueError", path |-> <<>>]
        ELSE [raised |-> "", path |-> join(parts)]

\* the names project_path / path leads through, from the project directory
\* on: ".." names stand first when the path leaves the project directory
RECURSIVE walk(_, _)
walk(parts, names) ==
    IF parts = <<>> THEN names
    ELSE IF Head(parts) \in {<<>>, <<".">>} THEN walk(Tail(parts), names)
    ELSE IF Head(parts) = <<".", ".">> /\ names # <<>> /\ names[Len(names)] # <<".", ".">>
    THEN walk(Tail(parts), SubSeq(names, 1, Len(names) - 1))
    ELSE walk(Tail(parts), Append(names, Head(parts)))

\* novel_write_text(project_id, path, content): what file_path.write_text
\* writes to; "" when mkdir or write_text raises (the path is a directory, or
\* leads through the file project.json)
file_path(path) ==
    LET names == walk(split(path), <<>>) IN
    IF names = <<>> \/ names[Len(names)] = <<".", ".">> THEN ""
    ELSE IF path[1] = "/" \/ names[1] = <<".", ".">> THEN "outside"
    ELSE IF names[1] = <<"project.json">> THEN (IF Len(names) = 1 THEN "project.json" ELSE "")
    ELSE "artifact"
novel_write_text(path) ==
    IF file_path(path) = "" THEN touched ELSE touched \cup {file_path(path)}

\* no run() is followed
NoRun ==
    /\ workflow = ""
    /\ suspended_at = 0
    /\ attempt = 0
    /\ outcome = ""
    /\ locals = <<>>
    /\ artifacts = <<>>

\* no artifact text was written
NoText ==
    /\ bundle_md = EMPTY
    /\ edits = 0
    /\ touched = {}

\* no call is made
CallStart ==
    /\ call = [op |-> "none"]
    /\ ret = <<>>
    /\ outline_md = <<>>
    /\ NoText

\* settings.projects_root_path / project_id, as a path that exists or not
_get_project_path == Path(".", ".")

\* the text a chapter file holds names the file; "NONE" is no file's text
Content(path) == path
NONE == <<"NONE">>
ChapterDirs == {"phase6_outputs", "phase7_outputs"}
ChapterFiles == {"final.md", "first_draft.md"}
\* the chapter files a project can hold, with and without the project directory
ChapterPaths == {<<dir, n, file>> : dir \in ChapterDirs, n \in 1..2, file \in ChapterFiles}
ProjectFiles == {{}} \cup {found \cup {_get_project_path} : found \in SUBSET ChapterPaths}

\* the lookup probes the project directory before the chapter-number test
novel_get_previous_chapter_final_probing(found, number) ==
    IF _get_project_path \notin found
    THEN [raised |-> "FileNotFoundError", text |-> NONE, warning |-> FALSE,
          probed |-> {_get_project_path}]
    ELSE [raised |-> "", text |-> NONE, warning |-> FALSE, probed |-> {_get_project_path}]

\* novel_get_previous_chapter_final(project_id, chapter_number) on the paths
\* `found`; `probed` are the paths whose existence or text it asked for
novel_get_previous_chapter_final(found, number) ==
    LET previous_chapter_num == number - 1
        final == <<"phase6_outputs", previous_chapter_num, "final.md">>
        first_draft == <<"phase6_outputs", previous_chapter_num, "first_draft.md">>
        previous_chapter_path == IF final \in found THEN final ELSE first_draft
        probes == IF final \in found THEN {_get_project_path, final}
                  ELSE {_get_project_path, final, first_draft}
    IN  IF number <= 1
        THEN [raised |-> "", text |-> NONE, warning |-> FALSE, probed |-> {}]
        ELSE IF _get_project_path \notin found
        THEN [raised |-> "FileNotFoundError", text |-> NONE, warning |-> FALSE,
              probed |-> {_get_project_path}]
        ELSE IF previous_chapter_path \notin found
        THEN [raised |-> "", text |-> NONE, warning |-> TRUE, probed |-> probes]
        ELSE [raised |-> "", text |-> Content(previous_chapter_path), warning |-> FALSE,
              probed |-> probes]

(***************************************************************************)
(* The project's files: chapter artifacts, context bundle and manifest.    *)
(***************************************************************************)
\* two executions of Phase7SingleChapterWorkflow started for one project
Invocations == {"run1", "run2"}
\* the API handler that patches the chapter list of the manifest
ApiUpdater == "api"
Updaters == Invocations \cup {ApiUpdater}
Chapters == {1, 2}
\* the files run() saves under chapter_dir
ChapterArtifacts == {"scene_brief", "first_draft", "improvement_plan", "final"}
Saves == ChapterArtifacts \cup {"context_bundle"}
LlmPositions == {"scene_brief", "first_draft", "improvement_plan", "improve"}

\* JSON values of the manifest: a dict has items, a function from its keys to
\* values; a list has its elements; an int is held as its one element
NoItems == [key \in {} |-> 0]
JsonDict(items) == [type |-> "dict", items |-> items, elems |-> <<>>]
JsonList(elems) == [type |-> "list", items |-> NoItems, elems |-> elems]
JsonInt(n) == [type |-> "int", items |-> NoItems, elems |-> <<n>>]
JsonStr(chars) == [type |-> "str", items |-> NoItems, elems |-> chars]
\* an entry of state["chapters"]
Chapter(number, title) == [number |-> number, title |-> title]

\* a bundle text without chapter blocks; the manifest document of a project
\* with one outlined chapter, before any chapter is written or retitled
NoBlocks == [c \in Chapters |-> ""]
EmptyDoc == [state |-> JsonDict([chapters |-> JsonList(<<Chapter(1, <<"A">>)>>)])]

\* manifest["state"]["chapters"]
chapters_data(doc) ==
    IF "state" \in DOMAIN doc /\ "chapters" \in DOMAIN doc["state"].items
    THEN doc["state"].items["chapters"].elems
    ELSE <<>>
\* ChapterUpdate.title of the requests
UpdateTitles == {<<"U">>}

\* f"{chapter_dir}/{name}.md"
chapter_dir(n) == [a \in ChapterArtifacts |-> <<n, a>>]

\* the chapter block of chapter_number is replaced or appended
update_context_bundle_with_chapter(bundle, n, final_chapter) ==
    [bundle EXCEPT ![n] = final_chapter]

\* a merge that lets every key of the patch replace the previous value
deep_merge_shallow(base, update) ==
    [key \in DOMAIN base \cup DOMAIN update |->
        IF key \in DOMAIN update THEN update[key] ELSE base[key]]

\* deep_merge(base, update)
RECURSIVE deep_merge(_, _)
deep_merge(base, update) ==
    [key \in DOMAIN base \cup DOMAIN update |->
        IF key \notin DOMAIN update THEN base[key]
        ELSE IF key \in DOMAIN base /\ base[key].type = "dict" /\ update[key].type = "dict"
        THEN JsonDict(deep_merge(base[key].items, update[key].items))
        ELSE update[key]]

\* the patch each caller of novel_update_manifest passes
Patch(u) ==
    IF u # ApiUpdater
    THEN [state |-> JsonDict([current_chapter_number |-> JsonInt(chapter_number[u])])]
    ELSE call.patch

\* manifests and patches: key "a" holds a scalar, a list or a dict over
\* "b" and "c"; key "x" holds a scalar or a list
MergeLeaves == {JsonInt(0), JsonInt(1), JsonInt(2), JsonList(<<1>>), JsonList(<<2>>)}
MergeValues ==
    MergeLeaves \cup {JsonDict(d) : d \in UNION {[S -> MergeLeaves] : S \in SUBSET {"b", "c"}}}
MergeDocs ==
    {[a |-> v] : v \in MergeValues}
        \cup {[x |-> w] : w \in {JsonInt(0), JsonList(<<2>>)}}
        \cup {[a |-> v, x |-> w] : v \in MergeValues, w \in {JsonInt(0), JsonList(<<2>>)}}

\* A line of outline.md: a "heading" matches chapter_pattern, a "row" matches
\* table_row_pattern, a "text" matches neither; number and title are the groups.
OutlineLine(pattern, number, title) == [kind |-> pattern, number |-> number, title |-> title]
OutlineLines ==
    {OutlineLine("heading", 0, <<"A">>), OutlineLine("heading", 1, <<"A">>),
     OutlineLine("heading", 1, <<"B", " ">>),
     OutlineLine("row", 1, <<"R">>), OutlineLine("text", 0, <<>>)}
Outlines == UNION {[1..n -> OutlineLines] : n \in 0..MaxLines}

\* pattern.findall(content) and the loop appending {"number", "title"}
RECURSIVE findall(_, _)
findall(pattern, content) ==
    IF content = <<>> THEN <<>>
    ELSE LET rest == findall(pattern, Tail(content)) IN
         IF Head(content).kind = pattern
         THEN <<Chapter(Head(content).number, Strip(Head(content).title))>> \o rest
         ELSE rest

\* the chapters matched: the headings or, when there is none, the table rows
matched_chapters(content) ==
    LET chapters == findall("heading", content) IN
    IF chapters # <<>> THEN chapters ELSE findall("row", content)

has_duplicate_numbers(chapters) ==
    Cardinality({chapters[k].number : k \in 1..Len(chapters)}) # Len(chapters)
is_monotonic_non_decreasing(chapters) ==
    \A j, k \in 1..Len(chapters) : j < k => chapters[j].number <= chapters[k].number

\* a parser that keeps the numbers it matched
novel_parse_outline_unrepaired(content) == matched_chapters(content)

\* novel_parse_outline: the chapters it returns for the text of outline.md
novel_parse_outline(content) ==
    LET chapters == matched_chapters(content) IN
    IF has_duplicate_numbers(chapters) \/ ~is_monotonic_non_decreasing(chapters)
    THEN [idx \in 1..Len(chapters) |-> Chapter(idx, chapters[idx].title)]
    ELSE chapters

\* the patch novel_parse_outline passes to novel_update_manifest
ParsePatch(chapters) ==
    [state |-> JsonDict([total_chapters |-> JsonInt(Len(chapters)),
                         chapters |-> JsonList(chapters)])]

\* the manifest create_project writes, and one of a project in phase 7
NewManifest ==
    [project_id |-> JsonStr(<<"p">>),
     state |-> JsonDict([current_phase |-> JsonInt(1), total_chapters |-> JsonInt(0),
                         chapters |-> JsonList(<<>>)])]
Manifests ==
    {NewManifest,
     [project_id |-> JsonStr(<<"p">>),
      state |-> JsonDict([current_phase |-> JsonInt(7), total_chapters |-> JsonInt(1),
                          current_chapter_number |-> JsonInt(1),
                          chapters |-> JsonList(<<Chapter(1, <<"O">>)>>)])]}

\* ProjectImportRequest: its chapters (number, title; title <<>> is None) and
\* whether an outline comes with it; overwrite is set
ImportRequests ==
    {[chapters |-> <<Chapter(2, <<"T">>)>>, outline |-> FALSE],
     [chapters |-> <<Chapter(1, <<>>), Chapter(1, <<"T", " ">>)>>, outline |-> TRUE],
     [chapters |-> <<>>, outline |-> TRUE],
     [chapters |-> <<Chapter(0, <<"T">>)>>, outline |-> FALSE]}

\* f"Chapter {num}"
DefaultTitle(num) == <<"C", "h", <<"0", "1", "2", "3", "4", "5", "6", "7", "8", "9">>[num + 1]>>

\* existing_by_num after both loops of _apply_project_import, for a num in it
existing_by_num(chapters, imported, num) ==
    LET existing == {k \in 1..Len(chapters) : chapters[k].number = num}
        titled == {k \in 1..Len(imported) :
                      imported[k].number = num /\ Strip(imported[k].title) # <<>>}
        last(ks) == CHOOSE k \in ks : \A j \in ks : j <= k
    IN  IF existing # {}
        THEN IF titled # {}
             THEN [chapters[last(existing)] EXCEPT !.title = Strip(imported[last(titled)].title)]
             ELSE chapters[last(existing)]
        ELSE Chapter(num, IF titled # {} THEN Strip(imported[last(titled)].title)
                          ELSE DefaultTitle(num))

\* [existing_by_num[n] for n in sorted(existing_by_num.keys())]
RECURSIVE merged(_, _, _)
merged(chapters, imported, nums) ==
    IF nums = {} THEN <<>>
    ELSE LET n == CHOOSE n \in nums : \A other \in nums : n <= other IN
         <<existing_by_num(chapters, imported, n)>> \o merged(chapters, imported, nums \ {n})

\* the patch of the inferred phase flags for the files present and a manifest
RefreshPatch(present, doc) ==
    LET items == doc["state"].items
        chapters == chapters_data(doc)
        st == FreshState([k \in 1..Len(chapters) |-> <<chapters[k].number>>],
                         IF "total_chapters" \in DOMAIN items
                         THEN items["total_chapters"].elems ELSE <<>>)
        result == infer_project_phase_state(present, st)
    IN  [state |-> JsonDict([phases_completed |-> JsonList(result.phases_completed),
                             current_phase |-> JsonInt(result.current_phase)])]

\* the patch _apply_project_import passes after writing the imported chapters
ImportPatch(doc, imported) ==
    LET chapters == chapters_data(doc)
        imported_chapter_nums == {imported[k].number : k \in 1..Len(imported)}
        nums == {chapters[k].number : k \in 1..Len(chapters)} \cap (1..9)
        list == merged(chapters, imported, nums \cup imported_chapter_nums)
        stored == IF "total_chapters" \in DOMAIN doc["state"].items
                  THEN doc["state"].items["total_chapters"].elems[1] ELSE 0
        total_chapters == IF stored <= 0 THEN Len(list) ELSE stored
        highest == CHOOSE n \in imported_chapter_nums : \A other \in imported_chapter_nums : other <= n
    IN  [state |-> JsonDict([chapters |-> JsonList(list),
                             total_chapters |-> JsonInt(IF total_chapters >= highest
                                                        THEN total_chapters ELSE highest)])]

\* a file is <<>> (missing) or <<[whole, text]>>; open(path, "w") leaves it
\* empty until the writer's data is flushed
Truncated(empty) == <<[whole |-> FALSE, text |-> empty]>>
\* the writer's data is flushed and the file closed
Stored(text) == <<[whole |-> TRUE, text |-> text]>>

\* a bundle text derived from the text the file holds when it is saved
updated_context_bundle_reloaded(i) ==
    update_context_bundle_with_chapter(bundle_file[1].text, chapter_number[i], i)

\* the bundle text an execution saves: derived from the copy it loaded
updated_context_bundle(i) ==
    update_context_bundle_with_chapter(context_bundle[i], chapter_number[i], i)

\* the files before any chapter is written: phase 1 has saved the bundle
NoExecution ==
    /\ chapter_number = [i \in Invocations |-> 0]
    /\ ipc = [i \in Invocations |-> "idle"]
    /\ context_bundle = [i \in Invocations |-> NoBlocks]
    /\ act = [i \in Invocations |-> [a \in Saves |-> "none"]]
    /\ manifest = [u \in Updaters |-> EmptyDoc]
    /\ files = [p \in Chapters \X ChapterArtifacts |-> <<>>]
    /\ bundle_file = Stored(NoBlocks)

VaultStart ==
    /\ NoExecution
    /\ upd = [u \in Updaters |-> "none"]
    /\ project_json = Stored(EmptyDoc)

ControllerInit ==
    /\ kind \in Kinds
    /\ auto_approve \in (IF kind = "context_bundle" THEN {FALSE} ELSE BOOLEAN)
    /\ auto_approve_improvements \in (IF kind = "final_chapter" THEN BOOLEAN ELSE {FALSE})
    /\ inputs_complete \in (IF kind = "context_bundle" THEN BOOLEAN ELSE {TRUE})
    /\ run_risk_audit \in (IF kind = "series_outline" THEN BOOLEAN ELSE {FALSE})
    /\ deadline \in {0, ExecutionTimeoutHours(kind)}
    /\ wfState = "running"
    /\ pc = "load"
    /\ step = 1
    /\ revision_count = 0
    /\ results = [r \in Results |-> 0]
    /\ llm_calls = 0
    /\ current_status = "starting"
    /\ pending_content = <<>>
    /\ pending_description = <<>>
    /\ pending_expected_outputs = {}
    /\ human_input = <<>>
    /\ human_inputs = <<>>
    /\ user_input = <<>>
    /\ context_approval = <<>>
    /\ self_revision_notes = <<>>
    /\ custom_notes = ""
    /\ decision = EmptyDict
    /\ revision_notes = ""
    /\ last_regen = <<>>
    /\ last_apply = <<>>
    /\ decision_requests = 0
    /\ notes_requests = 0
    /\ regenerations = 0
    /\ written = [p \in Paths |-> 0]
    /\ age = 0
    /\ waited = 0
    /\ wait_timed_out = FALSE

\* the review controller starts; the files and the inferencer are left alone
Init ==
    /\ ControllerInit
    /\ VaultStart
    /\ ProjectStart
    /\ CallStart
    /\ NoRun

(***************************************************************************)
(* Helpers shared by the controllers.                                      *)
(***************************************************************************)
\* set the pending-review fields read by the queries, then run
\* human_input_activity, which only logs and returns a placeholder
PublishRequest(prompt, draftId, descr, expected) ==
    /\ current_status' = "waiting_for_review"
    /\ pending_content' = <<prompt, draftId>>
    /\ pending_description' = <<descr>>
    /\ pending_expected_outputs' = expected
    /\ waited' = 0

ClearPending ==
    /\ pending_content' = <<>>
    /\ pending_description' = <<>>
    /\ pending_expected_outputs' = {}

\* a status assignment that "" leaves out
StatusAfter(st) == IF st = "" THEN current_status ELSE st

\* a decision request that shows the draft held before the step
AskDecisionStale(draftId) ==
    /\ PublishRequest("review", results["draft"], "Review the generated draft", {"decision"})
    /\ decision_requests' = decision_requests + 1
    /\ pc' = "wait_decision"

\* an iteration of a loop asks for a decision on the draft
AskDecision(draftId) ==
    /\ PublishRequest("review", draftId, "Review the generated draft", {"decision"})
    /\ decision_requests' = decision_requests + 1
    /\ pc' = "wait_decision"

\* ... and for revision notes
AskNotes ==
    /\ PublishRequest("notes", 0, "Provide revision notes", {"revision_notes"})
    /\ notes_requests' = notes_requests + 1
    /\ pc' = "wait_notes"

\* the loop is left: run() goes on with its steps after the loop
LeaveLoop ==
    /\ pc' = "post"
    /\ step' = 1

\* one activity of a step table returns
StepEffect(s) ==
    CASE s.op = "llm" ->
           /\ llm_calls' = llm_calls + 1
           /\ results' = [results EXCEPT ![s.arg] = llm_calls + 1]
           /\ UNCHANGED written
      [] s.op = "save" ->
           /\ written' = [written EXCEPT ![s.arg] = results[s.src]]
           /\ UNCHANGED <<llm_calls, results>>
      [] OTHER ->
           UNCHANGED <<llm_calls, results, written>>

(***************************************************************************)
(* The single-slot controllers: series outline, call sheet, characters,    *)
(* worldbuilding, chapter outline (and, where noted, story bible).         *)
(***************************************************************************)
\* @workflow.signal human_input_received
human_input_received(inputs) ==
    /\ Running
    /\ kind \in SingleSlotKinds
    /\ human_input' = <<inputs>>
    /\ current_status' = "processing_review"
    /\ UNCHANGED <<storeVars, inputVars, wfState, pc, step, revision_count, outVars, pendingVars,
                   human_inputs, user_input, context_approval, self_revision_notes,
                   localVars, countVars, clockVars>>

\* run(): load the context bundle (story bible: its sources; chapter writing:
\* the bundle and the previous chapter) before the first generation call
LoadSources ==
    /\ Running
    /\ kind # "context_bundle"
    /\ pc = "load"
    /\ pc' = IF kind = "final_chapter" THEN "pre" ELSE "generate"
    /\ current_status' = StatusAfter(GeneratingStatus(kind))
    /\ UNCHANGED <<storeVars, inputVars, wfState, step, revision_count, outVars, pendingVars,
                   slotVars, localVars, countVars, clockVars>>

\* the initial generation call returns; auto-approve returns the draft at once,
\* otherwise the first iteration of the loop publishes its request
Generate ==
    /\ Running
    /\ kind \in SingleSlotKinds \ {"story_bible"}
    /\ pc = "generate"
    /\ llm_calls' = llm_calls + 1
    /\ results' = [results EXCEPT !["draft"] = llm_calls + 1]
    /\ IF auto_approve
       THEN /\ LeaveLoop
            /\ UNCHANGED <<current_status, pendingVars, human_input, countVars, waited>>
       ELSE /\ AskDecision(llm_calls + 1)
            /\ human_input' = <<>>
            /\ UNCHANGED <<step, notes_requests, regenerations>>
    /\ UNCHANGED <<storeVars, inputVars, wfState, revision_count, written, human_inputs, user_input,
                   context_approval, self_revision_notes, localVars, age, wait_timed_out>>

\* wait_condition(lambda: self._human_input is not None) returns for the decision
\* wait; the response is classified and the branch taken up to its next await
ReceiveDecision ==
    /\ Running
    /\ kind \in SingleSlotKinds \ {"story_bible"}
    /\ pc = "wait_decision"
    /\ human_input # <<>>
    /\ decision' = human_input[1]
    /\ LET decision_text == DecisionText(Get(human_input[1], "decision", <<>>)) IN
       IF Contains(decision_text, APPROVE)
       THEN /\ LeaveLoop
            /\ ClearPending
            /\ current_status' = "processing_review"
            /\ UNCHANGED <<human_input, countVars, waited>>
       ELSE IF Contains(decision_text, REVISE)
       THEN /\ AskNotes
            /\ human_input' = <<>>
            /\ UNCHANGED <<step, decision_requests, regenerations>>
       ELSE /\ LeaveLoop
            /\ ClearPending
            /\ current_status' = "processing_review"
            /\ UNCHANGED <<human_input, countVars, waited>>
    /\ UNCHANGED <<storeVars, inputVars, wfState, revision_count, outVars, human_inputs, user_input,
                   context_approval, self_revision_notes, revision_notes, custom_notes, last_apply,
                   last_regen, age, wait_timed_out>>

\* the revision-notes wait returns; the regeneration call is started
ReceiveNotes ==
    /\ Running
    /\ kind \in SingleSlotKinds
    /\ pc = "wait_notes"
    /\ human_input # <<>>
    /\ revision_notes' = Get(human_input[1], "revision_notes", "")
    /\ IF kind = "story_bible" THEN UNCHANGED pendingVars ELSE ClearPending
    /\ current_status' = RevisingStatus(kind)
    /\ pc' = "regenerate"
    /\ UNCHANGED <<storeVars, inputVars, wfState, step, revision_count, outVars, slotVars, decision,
                   custom_notes, last_apply, last_regen, countVars, clockVars>>

\* the regeneration call returns; `continue` starts the next iteration, which
\* publishes the next request, or the range is exhausted and the loop is left
Regenerate ==
    /\ Running
    /\ kind \in SingleSlotKinds \ {"story_bible"}
    /\ pc = "regenerate"
    /\ llm_calls' = llm_calls + 1
    /\ results' = [results EXCEPT !["draft"] = llm_calls + 1]
    /\ last_regen' = <<[draft |-> results["draft"], notes |-> revision_notes]>>
    /\ revision_count' = revision_count + 1
    /\ regenerations' = regenerations + 1
    /\ IF revision_count + 1 < max_revisions(kind)
       THEN /\ AskDecision(llm_calls + 1)
            /\ human_input' = <<>>
            /\ UNCHANGED <<step, notes_requests>>
       ELSE /\ LeaveLoop
            /\ UNCHANGED <<current_status, pendingVars, human_input, decision_requests,
                           notes_requests, waited>>
    /\ UNCHANGED <<storeVars, inputVars, wfState, written, human_inputs, user_input, context_approval,
                   self_revision_notes, decision, revision_notes, custom_notes, last_apply, age,
                   wait_timed_out>>

\* one step of run() after the loop
PostStep ==
    /\ Running
    /\ pc = "post"
    /\ step <= Len(PostSteps(kind, run_risk_audit))
    /\ LET s == PostSteps(kind, run_risk_audit)[step] IN
       /\ current_status' = StatusAfter(s.status)
       /\ StepEffect(s)
    /\ step' = step + 1
    /\ UNCHANGED <<storeVars, inputVars, wfState, pc, revision_count, pendingVars, slotVars,
                   localVars, countVars, clockVars>>

\* run() returns its output
Complete ==
    /\ Running
    /\ pc = "post"
    /\ step > Len(PostSteps(kind, run_risk_audit))
    /\ wfState' = "completed"
    /\ pc' = "done"
    /\ current_status' = IF SetsCompleted(kind) THEN "completed" ELSE current_status
    /\ UNCHANGED <<storeVars, inputVars, step, revision_count, outVars, pendingVars, slotVars,
                   localVars, countVars, clockVars>>

(***************************************************************************)
(* The story-bible controller: the draft is saved before it is reviewed    *)
(* and after every regeneration; the loop has no REVISE test.              *)
(***************************************************************************)
\* _generate_story_bible returns (initial call, or the call after the notes wait)
GenerateStoryBible ==
    /\ Running
    /\ kind = "story_bible"
    /\ pc \in {"generate", "regenerate"}
    /\ llm_calls' = llm_calls + 1
    /\ results' = [results EXCEPT !["draft"] = llm_calls + 1]
    /\ IF pc = "regenerate"
       THEN /\ last_regen' = <<[draft |-> 0, notes |-> revision_notes]>>
            /\ regenerations' = regenerations + 1
            /\ revision_count' = revision_count + 1
       ELSE UNCHANGED <<last_regen, regenerations, revision_count>>
    /\ current_status' = "saving_story_bible"
    /\ pc' = "sb_save"
    /\ UNCHANGED <<storeVars, inputVars, wfState, step, pendingVars, slotVars, decision,
                   revision_notes, custom_notes, last_apply, decision_requests, notes_requests,
                   written, clockVars>>

\* save_artifact_activity returns; then auto-approve returns, or the next
\* iteration publishes its request, or the range is exhausted
SaveStoryBible ==
    /\ Running
    /\ kind = "story_bible"
    /\ pc = "sb_save"
    /\ written' = [written EXCEPT ![ReviewedPath(kind)] = results["draft"]]
    /\ IF (auto_approve /\ regenerations = 0) \/ revision_count >= max_revisions(kind)
       THEN /\ LeaveLoop
            /\ UNCHANGED <<current_status, pendingVars, human_input, countVars, waited>>
       ELSE /\ AskDecision(results["draft"])
            /\ human_input' = <<>>
            /\ UNCHANGED <<step, notes_requests, regenerations>>
    /\ UNCHANGED <<storeVars, inputVars, wfState, revision_count, results, llm_calls, human_inputs,
                   user_input, context_approval, self_revision_notes, localVars, age,
                   wait_timed_out>>

\* the decision wait returns: APPROVE breaks, anything else asks for notes
ReceiveDecisionStoryBible ==
    /\ Running
    /\ kind = "story_bible"
    /\ pc = "wait_decision"
    /\ human_input # <<>>
    /\ decision' = human_input[1]
    /\ IF Contains(DecisionText(Get(human_input[1], "decision", <<>>)), APPROVE)
       THEN /\ LeaveLoop
            /\ ClearPending
            /\ UNCHANGED <<current_status, human_input, countVars, waited>>
       ELSE /\ AskNotes
            /\ human_input' = <<>>
            /\ UNCHANGED <<step, decision_requests, regenerations>>
    /\ UNCHANGED <<storeVars, inputVars, wfState, revision_count, outVars, human_inputs, user_input,
                   context_approval, self_revision_notes, revision_notes, custom_notes, last_apply,
                   last_regen, age, wait_timed_out>>

(***************************************************************************)
(* Steps before the reviewed draft exists (initial setup, chapter writing).*)
(***************************************************************************)
\* one step of run() before the draft is generated; after the last one the
\* controller enters _generate_context_bundle / _process_improvements
PreStep ==
    /\ Running
    /\ pc = "pre"
    /\ step <= Len(PreSteps(kind))
    /\ LET s == PreSteps(kind)[step]
           last == step = Len(PreSteps(kind)) IN
       /\ current_status' = IF last /\ kind = "context_bundle"
                            THEN GeneratingStatus(kind)
                            ELSE StatusAfter(s.status)
       /\ StepEffect(s)
       /\ step' = IF last THEN 1 ELSE step + 1
       /\ pc' = IF ~last THEN "pre"
                ELSE IF kind = "context_bundle" THEN "generate" ELSE "improve"
    /\ UNCHANGED <<storeVars, inputVars, wfState, revision_count, pendingVars, slotVars, localVars,
                   countVars, clockVars>>

(***************************************************************************)
(* The initial-setup controller (context bundle): its own signals and      *)
(* fields; the pending content is the bundle and is never cleared.         *)
(***************************************************************************)
\* @workflow.signal provide_user_input
provide_user_input ==
    /\ Running
    /\ kind = "context_bundle"
    /\ user_input' = <<"inputs">>
    /\ UNCHANGED <<storeVars, inputVars, wfState, pc, step, revision_count, outVars, current_status,
                   pendingVars, human_input, human_inputs, context_approval,
                   self_revision_notes, localVars, countVars, clockVars>>

\* @workflow.signal provide_context_approval(decision, notes)
provide_context_approval(d, notes) ==
    /\ Running
    /\ kind = "context_bundle"
    /\ context_approval' = <<DecisionText(d)>>
    /\ self_revision_notes' = <<notes>>
    /\ UNCHANGED <<storeVars, inputVars, wfState, pc, step, revision_count, outVars, current_status,
                   pendingVars, human_input, human_inputs, user_input, localVars,
                   countVars, clockVars>>

\* @workflow.signal user_review_signal: its last statement reads the undefined
\* name `inputs`; the NameError fails the workflow task, which the server
\* retries with the same outcome, so nothing of the execution runs any more
user_review_signal ==
    /\ Running
    /\ kind = "context_bundle"
    /\ wfState' = "blocked"
    /\ UNCHANGED <<storeVars, inputVars, pc, step, revision_count, outVars, current_status,
                   pendingVars, slotVars, localVars, countVars, clockVars>>

\* run() starts: with an input missing it asks for the inputs and waits
StartInitialSetup ==
    /\ Running
    /\ kind = "context_bundle"
    /\ pc = "load"
    /\ IF inputs_complete
       THEN /\ pc' = "pre"
            /\ current_status' = "collecting_inputs"
            /\ UNCHANGED waited
       ELSE /\ pc' = "wait_inputs"
            /\ current_status' = "waiting_for_inputs"
            /\ waited' = 0
    /\ UNCHANGED <<storeVars, inputVars, wfState, step, revision_count, outVars, pendingVars,
                   slotVars, localVars, countVars, age, wait_timed_out>>

\* wait_condition(lambda: self._user_input is not None) returns
ReceiveUserInput ==
    /\ Running
    /\ pc = "wait_inputs"
    /\ user_input # <<>>
    /\ pc' = "pre"
    /\ UNCHANGED <<storeVars, inputVars, wfState, step, revision_count, outVars, current_status,
                   pendingVars, slotVars, localVars, countVars, clockVars>>

\* an iteration of the context-bundle loop: reset the approval state and ask
AskApproval ==
    /\ current_status' = "waiting_for_review"
    /\ context_approval' = <<>>
    /\ self_revision_notes' = <<>>
    /\ decision_requests' = decision_requests + 1
    /\ waited' = 0
    /\ pc' = "wait_decision"

\* the generation call of _generate_context_bundle returns (initial call, or the
\* revision call), the bundle becomes the pending content, and the next
\* iteration asks for approval unless the range is exhausted
GenerateContextBundle ==
    /\ Running
    /\ kind = "context_bundle"
    /\ pc \in {"generate", "regenerate"}
    /\ llm_calls' = llm_calls + 1
    /\ results' = [results EXCEPT !["draft"] = llm_calls + 1]
    /\ pending_content' = <<"bundle", llm_calls + 1>>
    /\ IF pc = "regenerate"
       THEN /\ last_regen' = <<[draft |-> results["draft"], notes |-> revision_notes]>>
            /\ regenerations' = regenerations + 1
            /\ revision_count' = revision_count + 1
       ELSE UNCHANGED <<last_regen, regenerations, revision_count>>
    /\ IF pc = "regenerate" /\ revision_count + 1 >= max_revisions(kind)
       THEN /\ LeaveLoop
            /\ UNCHANGED <<current_status, context_approval, self_revision_notes,
                           decision_requests, waited>>
       ELSE /\ AskApproval
            /\ UNCHANGED step
    /\ UNCHANGED <<storeVars, inputVars, wfState, written, pending_description,
                   pending_expected_outputs, human_input, human_inputs, user_input,
                   decision, revision_notes, custom_notes, last_apply, notes_requests, age,
                   wait_timed_out>>

\* wait_condition(lambda: self._context_approval is not None) returns
ReceiveApproval ==
    /\ Running
    /\ kind = "context_bundle"
    /\ pc = "wait_decision"
    /\ context_approval # <<>>
    /\ IF Contains(context_approval[1], APPROVE)
       THEN /\ LeaveLoop
            /\ UNCHANGED <<current_status, self_revision_notes, revision_notes,
                           notes_requests, waited>>
       ELSE IF Contains(context_approval[1], REVISE)
       THEN IF self_revision_notes \in {<<>>, <<"">>}
            THEN /\ self_revision_notes' = <<>>
                 /\ notes_requests' = notes_requests + 1
                 /\ waited' = 0
                 /\ pc' = "wait_notes"
                 /\ UNCHANGED <<current_status, revision_notes, step>>
            ELSE /\ revision_notes' = self_revision_notes[1]
                 /\ current_status' = "revising"
                 /\ pc' = "regenerate"
                 /\ UNCHANGED <<self_revision_notes, notes_requests, waited, step>>
       ELSE /\ LeaveLoop
            /\ UNCHANGED <<current_status, self_revision_notes, revision_notes,
                           notes_requests, waited>>
    /\ UNCHANGED <<storeVars, inputVars, wfState, revision_count, outVars, pendingVars, human_input,
                   human_inputs, user_input, context_approval, decision, custom_notes, last_apply,
                   last_regen, decision_requests, regenerations, age, wait_timed_out>>

\* wait_condition(lambda: self._revision_notes is not None) returns
ReceiveApprovalNotes ==
    /\ Running
    /\ kind = "context_bundle"
    /\ pc = "wait_notes"
    /\ self_revision_notes # <<>>
    /\ revision_notes' = self_revision_notes[1]
    /\ current_status' = "revising"
    /\ pc' = "regenerate"
    /\ UNCHANGED <<storeVars, inputVars, wfState, step, revision_count, outVars, pendingVars,
                   slotVars, decision, custom_notes, last_apply, last_regen, countVars, clockVars>>

(***************************************************************************)
(* The chapter-writing controller: an inbox of responses and               *)
(* _await_human_input, which consumes the first response holding an        *)
(* expected key and puts its other keys back at the front.                 *)
(***************************************************************************)
\* @workflow.signal human_input_received of Phase7SingleChapterWorkflow; the
\* clients explored send responses until the last review has returned
human_inputs_append(inputs) ==
    /\ Running
    /\ kind = "final_chapter"
    /\ pc # "post"
    /\ Len(human_inputs) < MaxInbox
    /\ human_inputs' = Append(human_inputs, inputs)
    /\ UNCHANGED <<storeVars, inputVars, wfState, pc, step, revision_count, outVars, current_status,
                   pendingVars, human_input, user_input, context_approval,
                   self_revision_notes, localVars, countVars, clockVars>>

\* a match test that accepts a response holding any key at all
MatchesAnyKey(item, expected) == HasAnyKey(item, Keys)

\* any(k in item for k in expected_outputs)
Matches(item, expected) == HasAnyKey(item, expected)

\* the wait condition of _await_human_input
AwaitReady(expected) ==
    \E i \in 1..Len(human_inputs) : Matches(human_inputs[i], expected)

\* match_index: the first response holding an expected key
MatchIndex(expected) ==
    CHOOSE i \in 1..Len(human_inputs) :
        /\ Matches(human_inputs[i], expected)
        /\ \A j \in 1..(i - 1) : ~Matches(human_inputs[j], expected)

\* the response _await_human_input returns
Received(expected) == human_inputs[MatchIndex(expected)]

\* the inbox after pop(match_index) alone: the other keys are dropped
AfterPopDropsExtra(expected) ==
    LET i == MatchIndex(expected) IN
    SubSeq(human_inputs, 1, i - 1) \o SubSeq(human_inputs, i + 1, Len(human_inputs))

\* the inbox after pop(match_index) and insert(0, extra)
AfterPop(expected) ==
    LET i == MatchIndex(expected)
        extra == Without(human_inputs[i], expected)
        rest == SubSeq(human_inputs, 1, i - 1)
                \o SubSeq(human_inputs, i + 1, Len(human_inputs)) IN
    IF extra # EmptyDict THEN <<extra>> \o rest ELSE rest

\* _await_human_input returns: the pending fields are cleared
AwaitReturns ==
    /\ ClearPending
    /\ current_status' = "running"

\* a final review that asks for a decision whatever `finished` says
NextFinalReviewAlwaysAsks(draftId, finished, returned) ==
    /\ AskDecision(draftId)
    /\ UNCHANGED step

\* _final_review_loop is entered or continued with the draft: it returns when
\* `finished` (auto-approve, or the range is exhausted), else asks for a decision;
\* `returned` says that an _await_human_input has returned in the same step
NextFinalReview(draftId, finished, returned) ==
    IF finished
    THEN /\ LeaveLoop
         /\ IF returned THEN AwaitReturns ELSE UNCHANGED <<current_status, pendingVars>>
         /\ UNCHANGED <<decision_requests, waited>>
    ELSE /\ AskDecision(draftId)
         /\ UNCHANGED step

\* _process_improvements is entered
ProcessImprovements ==
    /\ Running
    /\ pc = "improve"
    /\ IF auto_approve_improvements
       THEN /\ pc' = "apply_plan"
            /\ UNCHANGED <<current_status, pendingVars, waited>>
       ELSE /\ PublishRequest("plan", results["improvement_plan"], "Improvement Plan",
                              {"decision"})
            /\ pc' = "wait_improve"
    /\ UNCHANGED <<storeVars, inputVars, wfState, step, revision_count, outVars, slotVars, localVars,
                   countVars, age, wait_timed_out>>

\* the improvement decision is consumed: SKIP keeps the first draft, CUSTOM asks
\* for custom notes, anything else applies the plan
ReceiveImprovementDecision ==
    /\ Running
    /\ pc = "wait_improve"
    /\ AwaitReady({"decision"})
    /\ human_inputs' = AfterPop({"decision"})
    /\ decision' = Received({"decision"})
    /\ LET decision_text == DecisionText(Get(Received({"decision"}), "decision", <<>>)) IN
       IF Contains(decision_text, SKIP)
       THEN /\ results' = [results EXCEPT !["draft"] = results["first_draft"]]
            /\ NextFinalReview(results["first_draft"], auto_approve, TRUE)
       ELSE IF Contains(decision_text, CUSTOM)
       THEN /\ PublishRequest("custom", 0, "Custom Instructions", {"custom_notes"})
            /\ pc' = "wait_custom"
            /\ UNCHANGED <<results, step, decision_requests>>
       ELSE /\ AwaitReturns
            /\ pc' = "apply_plan"
            /\ UNCHANGED <<results, step, decision_requests, waited>>
    /\ UNCHANGED <<storeVars, inputVars, wfState, revision_count, llm_calls, written, human_input,
                   user_input, context_approval, self_revision_notes, revision_notes,
                   custom_notes, last_apply, last_regen, notes_requests, regenerations, age,
                   wait_timed_out>>

\* the custom-notes wait returns and the revision call is started
ReceiveCustomNotes ==
    /\ Running
    /\ pc = "wait_custom"
    /\ AwaitReady({"custom_notes"})
    /\ human_inputs' = AfterPop({"custom_notes"})
    /\ custom_notes' = Get(Received({"custom_notes"}), "custom_notes", "")
    /\ AwaitReturns
    /\ pc' = "apply_custom"
    /\ UNCHANGED <<storeVars, inputVars, wfState, step, revision_count, outVars, human_input,
                   user_input, context_approval, self_revision_notes, decision,
                   revision_notes, last_regen, last_apply, countVars, clockVars>>

\* the revision call of _process_improvements with the given <custom_notes>
\* section (<<>> = the task has none) returns; _final_review_loop starts
Revise(notes) ==
    /\ Running
    /\ llm_calls' = llm_calls + 1
    /\ results' = [results EXCEPT !["draft"] = llm_calls + 1]
    /\ last_apply' = <<[draft |-> results["first_draft"],
                        plan |-> results["improvement_plan"], notes |-> notes]>>
    /\ NextFinalReview(llm_calls + 1, auto_approve, FALSE)
    /\ UNCHANGED <<storeVars, inputVars, wfState, revision_count, written, slotVars, decision,
                   revision_notes, custom_notes, last_regen, notes_requests,
                   regenerations, age, wait_timed_out>>

\* a CUSTOM branch whose revision call leaves the custom notes out
ApplyPlanWithCustomNotesDropped ==
    /\ pc = "apply_custom"
    /\ Revise(<<>>)

\* CUSTOM branch: the plan and the custom notes are applied
ApplyPlanWithCustomNotes ==
    /\ pc = "apply_custom"
    /\ Revise(<<custom_notes>>)

\* default or APPLY branch: the plan alone is applied
ApplyPlan ==
    /\ pc = "apply_plan"
    /\ Revise(<<>>)

\* the final-review decision is consumed and classified
ReceiveFinalDecision ==
    /\ Running
    /\ kind = "final_chapter"
    /\ pc = "wait_decision"
    /\ AwaitReady({"decision"})
    /\ human_inputs' = AfterPop({"decision"})
    /\ decision' = Received({"decision"})
    /\ LET decision_text == DecisionText(Get(Received({"decision"}), "decision", <<>>)) IN
       IF Contains(decision_text, APPROVE)
       THEN /\ AwaitReturns
            /\ LeaveLoop
            /\ UNCHANGED <<notes_requests, waited>>
       ELSE IF Contains(decision_text, REVISE)
       THEN /\ AskNotes
            /\ UNCHANGED step
       ELSE /\ AwaitReturns
            /\ LeaveLoop
            /\ UNCHANGED <<notes_requests, waited>>
    /\ UNCHANGED <<storeVars, inputVars, wfState, revision_count, outVars, human_input, user_input,
                   context_approval, self_revision_notes, revision_notes, custom_notes, last_apply,
                   last_regen, decision_requests, regenerations, age, wait_timed_out>>

\* the final revision notes are consumed and the revision call is started
ReceiveFinalNotes ==
    /\ Running
    /\ kind = "final_chapter"
    /\ pc = "wait_notes"
    /\ AwaitReady({"revision_notes"})
    /\ human_inputs' = AfterPop({"revision_notes"})
    /\ revision_notes' = Get(Received({"revision_notes"}), "revision_notes", "")
    /\ AwaitReturns
    /\ pc' = "regenerate"
    /\ UNCHANGED <<storeVars, inputVars, wfState, step, revision_count, outVars, human_input,
                   user_input, context_approval, self_revision_notes, decision,
                   custom_notes, last_apply, last_regen, countVars, clockVars>>

\* the final revision call returns; `continue` starts the next iteration
RegenerateFinal ==
    /\ Running
    /\ kind = "final_chapter"
    /\ pc = "regenerate"
    /\ llm_calls' = llm_calls + 1
    /\ results' = [results EXCEPT !["draft"] = llm_calls + 1]
    /\ last_regen' = <<[draft |-> results["draft"], notes |-> revision_notes]>>
    /\ revision_count' = revision_count + 1
    /\ regenerations' = regenerations + 1
    /\ NextFinalReview(llm_calls + 1, revision_count + 1 >= max_revisions(kind), FALSE)
    /\ UNCHANGED <<storeVars, inputVars, wfState, written, slotVars, decision, revision_notes,
                   custom_notes, last_apply, notes_requests, age, wait_timed_out>>

(***************************************************************************)
(* Time, timeouts and failures.                                            *)
(***************************************************************************)
\* whether the condition of the wait the controller is suspended in holds
WaitSatisfied ==
    CASE pc = "wait_inputs" -> user_input # <<>>
      [] kind = "final_chapter" -> AwaitReady(pending_expected_outputs)
      [] kind = "context_bundle" /\ pc = "wait_decision" -> context_approval # <<>>
      [] kind = "context_bundle" /\ pc = "wait_notes" -> self_revision_notes # <<>>
      [] OTHER -> human_input # <<>>

\* the wait timer can fire only while the execution is still within its timeout
TimerCanFire ==
    deadline = 0 \/ age + (ReviewWaitHours - waited) < deadline

\* the execution is open on the server
Open == wfState \in {"running", "blocked"}

\* one hour passes while an execution timeout is pending
Tick ==
    /\ Open
    /\ deadline # 0
    /\ age + 1 < deadline
    /\ age' = age + 1
    /\ waited' = IF pc \in WaitPcs THEN waited + 1 ELSE waited
    /\ UNCHANGED <<storeVars, inputVars, wfState, pc, step, revision_count, outVars, current_status,
                   pendingVars, slotVars, localVars, countVars, wait_timed_out>>

\* the execution timeout set by execute_phase is reached: the server closes
\* the execution wherever run() is
ExecutionTimeout ==
    /\ Open
    /\ deadline # 0
    /\ age + 1 = deadline
    /\ age' = age + 1
    /\ waited' = IF pc \in WaitPcs THEN waited + 1 ELSE waited
    /\ wfState' = "timed_out"
    /\ UNCHANGED <<storeVars, inputVars, pc, step, revision_count, outVars, current_status,
                   pendingVars, slotVars, localVars, countVars, wait_timed_out>>

\* a wait whose timeout is swallowed: the loop is left as if approved
WaitTimeoutAsApproval ==
    /\ Running
    /\ pc \in {"wait_decision", "wait_notes"}
    /\ ~WaitSatisfied
    /\ TimerCanFire
    /\ waited' = ReviewWaitHours
    /\ wait_timed_out' = TRUE
    /\ LeaveLoop
    /\ UNCHANGED <<storeVars, inputVars, wfState, revision_count, outVars, current_status,
                   pendingVars, slotVars, localVars, countVars, age>>

\* wait_condition(..., timeout=24h) raises asyncio.TimeoutError, which no
\* controller catches: run() ends with the error
WaitTimeout ==
    /\ Running
    /\ pc \in WaitPcs
    /\ ~WaitSatisfied
    /\ TimerCanFire
    /\ waited' = ReviewWaitHours
    /\ wait_timed_out' = TRUE
    /\ wfState' = "failed"
    /\ UNCHANGED <<storeVars, inputVars, pc, step, revision_count, outVars, current_status,
                   pendingVars, slotVars, localVars, countVars, age>>

\* an activity (load, generation, save) fails after its retries: ActivityError
ActivityFails ==
    /\ Running
    /\ \/ pc \in {"load", "generate", "regenerate", "sb_save", "pre", "apply_plan", "apply_custom"}
          /\ ~(kind = "context_bundle" /\ pc = "load")
       \/ pc = "post" /\ step <= Len(PostSteps(kind, run_risk_audit))
    /\ wfState' = "failed"
    /\ UNCHANGED <<storeVars, inputVars, pc, step, revision_count, outVars, current_status,
                   pendingVars, slotVars, localVars, countVars, clockVars>>

Next ==
    \/ \E inputs \in Payloads(kind) : human_input_received(inputs)
    \/ LoadSources
    \/ Generate
    \/ ReceiveDecision
    \/ ReceiveNotes
    \/ Regenerate
    \/ GenerateStoryBible
    \/ SaveStoryBible
    \/ ReceiveDecisionStoryBible
    \/ PreStep
    \/ PostStep
    \/ Complete
    \/ provide_user_input
    \/ \E d \in ReviewTexts, notes \in {"", "n1"} : provide_context_approval(d, notes)
    \/ user_review_signal
    \/ StartInitialSetup
    \/ ReceiveUserInput
    \/ GenerateContextBundle
    \/ ReceiveApproval
    \/ ReceiveApprovalNotes
    \/ \E inputs \in Payloads(kind) : human_inputs_append(inputs)
    \/ ProcessImprovements
    \/ ReceiveImprovementDecision
    \/ ReceiveCustomNotes
    \/ ApplyPlanWithCustomNotes
    \/ ApplyPlan
    \/ ReceiveFinalDecision
    \/ ReceiveFinalNotes
    \/ RegenerateFinal
    \/ Tick
    \/ ExecutionTimeout
    \/ WaitTimeout
    \/ ActivityFails

Spec == Init /\ [][Next]_vars

(***************************************************************************)
(* Executions of Phase7SingleChapterWorkflow.run against the shared files. *)
(* The improvement step and the review loop are one step here.             *)
(***************************************************************************)
At(i, position) == ipc[i] = position
Goto(i, position) == ipc' = [ipc EXCEPT ![i] = position]
\* workflow.start_activity(save_artifact_activity, ...)
StartSaves(i, names) ==
    act' = [act EXCEPT ![i] = [a \in Saves |-> IF a \in names THEN "scheduled" ELSE @[a]]]
InFlight(status) == status \in {"scheduled", "read", "open"}
\* client requests issued so far: executions started and the API call
Requests ==
    Cardinality({i \in Invocations : ipc[i] # "idle"})
        + (IF upd[ApiUpdater] # "none" THEN 1 ELSE 0)
\* the execution is open: a closed execution's scheduled activities never start
Executing(i) == ipc[i] \notin {"idle", "completed", "failed"}
\* no execution has failed so far
NoneFailed == \A i \in Invocations : ipc[i] # "failed"

\* execute_phase starts the workflow for a chapter; run() starts its two loads
\* (executions and chapters are named in the order they first appear)
StartChapter(i, n) ==
    /\ At(i, "idle")
    /\ Requests < MaxRequests
    /\ IF i = "run1" THEN n = 1 ELSE ipc["run1"] # "idle"
    /\ chapter_number' = [chapter_number EXCEPT ![i] = n]
    /\ Goto(i, "loading")
    /\ UNCHANGED <<controllerVars, runVars, inferVars, callVars, context_bundle, act, upd, manifest, files,
                   bundle_file, project_json>>

\* the loads return: context_bundle is the text the file holds now
LoadContext(i) ==
    /\ At(i, "loading")
    /\ context_bundle' = [context_bundle EXCEPT ![i] = bundle_file[1].text]
    /\ Goto(i, "scene_brief")
    /\ UNCHANGED <<controllerVars, runVars, inferVars, callVars, chapter_number, act, upd, manifest, files,
                   bundle_file, project_json>>

\* the scene brief is generated and its save is started, not awaited
SceneBrief(i) ==
    /\ At(i, "scene_brief")
    /\ StartSaves(i, {"scene_brief"})
    /\ Goto(i, "first_draft")
    /\ UNCHANGED <<controllerVars, runVars, inferVars, callVars, chapter_number, context_bundle, upd, manifest, files,
                   bundle_file, project_json>>

\* a run() that starts the save of the first draft without awaiting the earlier save
FirstDraftUnawaited(i) ==
    /\ At(i, "first_draft")
    /\ StartSaves(i, {"first_draft"})
    /\ Goto(i, "improvement_plan")
    /\ UNCHANGED <<controllerVars, runVars, inferVars, callVars, chapter_number, context_bundle, upd, manifest, files,
                   bundle_file, project_json>>

\* the first draft is generated; await save_scene_brief_fut, then the save of
\* the first draft is started
FirstDraft(i) ==
    /\ At(i, "first_draft")
    /\ act[i]["scene_brief"] = "done"
    /\ StartSaves(i, {"first_draft"})
    /\ Goto(i, "improvement_plan")
    /\ UNCHANGED <<controllerVars, runVars, inferVars, callVars, chapter_number, context_bundle, upd, manifest, files,
                   bundle_file, project_json>>

\* the improvement plan is generated; await save_first_draft_fut, then the save
\* of the improvement plan is executed
ImprovementPlan(i) ==
    /\ At(i, "improvement_plan")
    /\ act[i]["first_draft"] = "done"
    /\ StartSaves(i, {"improvement_plan"})
    /\ Goto(i, "save_plan")
    /\ UNCHANGED <<controllerVars, runVars, inferVars, callVars, chapter_number, context_bundle, upd, manifest, files,
                   bundle_file, project_json>>

\* the save of the improvement plan returns
PlanSaved(i) ==
    /\ At(i, "save_plan")
    /\ act[i]["improvement_plan"] = "done"
    /\ Goto(i, "improve")
    /\ UNCHANGED <<controllerVars, runVars, inferVars, callVars, chapter_number, context_bundle, act, upd, manifest,
                   files, bundle_file, project_json>>

\* _process_improvements and _final_review_loop return the final chapter; the
\* saves of final.md and of the bundle and the manifest update are started
FinalChapter(i) ==
    /\ At(i, "improve")
    /\ StartSaves(i, {"final", "context_bundle"})
    /\ upd' = [upd EXCEPT ![i] = "scheduled"]
    /\ Goto(i, "await_final")
    /\ UNCHANGED <<controllerVars, runVars, inferVars, callVars, chapter_number, context_bundle, manifest, files,
                   bundle_file, project_json>>

\* the three activities are awaited; run() returns
CompleteChapter(i) ==
    /\ At(i, "await_final")
    /\ act[i]["final"] = "done"
    /\ act[i]["context_bundle"] = "done"
    /\ upd[i] = "done"
    /\ Goto(i, "completed")
    /\ context_bundle' = [context_bundle EXCEPT ![i] = NoBlocks]
    /\ UNCHANGED <<controllerVars, runVars, inferVars, callVars, chapter_number, act, upd, manifest, files,
                   bundle_file, project_json>>

\* novel_write_text: file_path.write_text opens the file for writing
novel_write_text_open(i, a) ==
    /\ act[i][a] = "scheduled"
    /\ Executing(i)
    /\ act' = [act EXCEPT ![i][a] = "open"]
    /\ IF a = "context_bundle"
       THEN /\ bundle_file' = Truncated(NoBlocks)
            /\ UNCHANGED files
       ELSE /\ files' = [files EXCEPT ![chapter_dir(chapter_number[i])[a]] = Truncated("")]
            /\ UNCHANGED bundle_file
    /\ UNCHANGED <<controllerVars, runVars, inferVars, callVars, chapter_number, ipc, context_bundle, upd, manifest,
                   project_json>>

\* novel_write_text: the content is written and the file closed
novel_write_text_close(i, a) ==
    /\ act[i][a] = "open"
    /\ act' = [act EXCEPT ![i][a] = "done"]
    /\ IF a = "context_bundle"
       THEN /\ bundle_file' = Stored(updated_context_bundle(i))
            /\ UNCHANGED files
       ELSE /\ files' = [files EXCEPT ![chapter_dir(chapter_number[i])[a]] = Stored(i)]
            /\ UNCHANGED bundle_file
    /\ UNCHANGED <<controllerVars, runVars, inferVars, callVars, chapter_number, ipc, context_bundle, upd, manifest,
                   project_json>>

\* the API handler update_chapter calls novel_update_manifest
update_chapter ==
    \E n \in Chapters, title \in UpdateTitles :
        /\ upd[ApiUpdater] = "none"
        /\ Requests < MaxRequests
        /\ project_json[1].whole
        /\ LET chapters == chapters_data(project_json[1].text)
               found == {k \in 1..Len(chapters) : chapters[k].number = n}
               first == CHOOSE k \in found : \A j \in found : k <= j
           IN  /\ found # {}
               /\ call' = [op |-> "update_chapter",
                           patch |-> [state |-> JsonDict([chapters |->
                               JsonList([chapters EXCEPT ![first].title = title])])]]
        /\ upd' = [upd EXCEPT ![ApiUpdater] = "scheduled"]
        /\ UNCHANGED <<controllerVars, runVars, inferVars, ret, outline_md, textVars, chapter_number, ipc,
                       context_bundle, act, manifest, files, bundle_file, project_json>>

\* the caller's activity or request fails
UpdaterFails(u) ==
    IF u \in Invocations THEN Goto(u, "failed") ELSE UNCHANGED ipc

\* novel_update_manifest: the manifest is read and parsed; json.loads raises on
\* a document that is not whole
novel_update_manifest_read(u) ==
    /\ upd[u] = "scheduled"
    /\ u \in Invocations => Executing(u)
    /\ IF project_json[1].whole
       THEN /\ manifest' = [manifest EXCEPT ![u] = project_json[1].text]
            /\ upd' = [upd EXCEPT ![u] = "read"]
            /\ UNCHANGED ipc
       ELSE /\ upd' = [upd EXCEPT ![u] = "failed"]
            /\ UpdaterFails(u)
            /\ UNCHANGED manifest
    /\ UNCHANGED <<controllerVars, runVars, inferVars, callVars, chapter_number, context_bundle, act, files,
                   bundle_file, project_json>>

\* novel_update_manifest: manifest_path.write_text opens the file for writing
novel_update_manifest_open(u) ==
    /\ upd[u] = "read"
    /\ upd' = [upd EXCEPT ![u] = "open"]
    /\ project_json' = Truncated(EmptyDoc)
    /\ UNCHANGED <<controllerVars, runVars, inferVars, callVars, chapter_number, ipc, context_bundle, act, manifest,
                   files, bundle_file>>

\* a novel_update_manifest that merges the patch into the document stored now
novel_update_manifest_close_current(u) ==
    /\ upd[u] = "open"
    /\ upd' = [upd EXCEPT ![u] = "done"]
    /\ project_json' = Stored(deep_merge(project_json[1].text, Patch(u)))
    /\ manifest' = [manifest EXCEPT ![u] = EmptyDoc]
    /\ UNCHANGED <<controllerVars, runVars, inferVars, callVars, chapter_number, ipc, context_bundle, act, files,
                   bundle_file>>

\* novel_update_manifest: the merged document is written and the file closed
novel_update_manifest_close(u) ==
    /\ upd[u] = "open"
    /\ upd' = [upd EXCEPT ![u] = "done"]
    /\ project_json' = Stored(deep_merge(manifest[u], Patch(u)))
    /\ manifest' = [manifest EXCEPT ![u] = EmptyDoc]
    /\ UNCHANGED <<controllerVars, runVars, inferVars, callVars, chapter_number, ipc, context_bundle, act, files,
                   bundle_file>>

\* a failure handler that removes the artifacts the execution has written
GenerationFailsWithRollback(i) ==
    /\ ipc[i] \in LlmPositions
    /\ NoneFailed
    /\ Goto(i, "failed")
    /\ files' = [p \in Chapters \X ChapterArtifacts |->
                    IF files[p] # <<>> /\ files[p][1].text = i THEN <<>> ELSE files[p]]
    /\ UNCHANGED <<controllerVars, runVars, inferVars, callVars, chapter_number, context_bundle, act, upd, manifest,
                   bundle_file, project_json>>

\* a generation activity fails after its retries: run() raises, nothing is undone
GenerationFails(i) ==
    /\ ipc[i] \in LlmPositions
    /\ NoneFailed
    /\ Goto(i, "failed")
    /\ UNCHANGED <<controllerVars, runVars, inferVars, callVars, chapter_number, context_bundle, act, upd, manifest,
                   files, bundle_file, project_json>>

\* the worker dies while a save has its file open, on every attempt
WriteLost(i, a) ==
    /\ act[i][a] = "open"
    /\ NoneFailed
    /\ act' = [act EXCEPT ![i][a] = "failed"]
    /\ Goto(i, "failed")
    /\ UNCHANGED <<controllerVars, runVars, inferVars, callVars, chapter_number, context_bundle, upd, manifest, files,
                   bundle_file, project_json>>

\* the process dies while novel_update_manifest has project.json open
ManifestWriteLost(u) ==
    /\ upd[u] = "open"
    /\ NoneFailed
    /\ upd' = [upd EXCEPT ![u] = "failed"]
    /\ UpdaterFails(u)
    /\ manifest' = [manifest EXCEPT ![u] = EmptyDoc]
    /\ UNCHANGED <<controllerVars, runVars, inferVars, callVars, chapter_number, context_bundle, act, files,
                   bundle_file, project_json>>

NextVault ==
    \/ \E i \in Invocations, n \in Chapters : StartChapter(i, n)
    \/ \E i \in Invocations : LoadContext(i)
    \/ \E i \in Invocations : SceneBrief(i)
    \/ \E i \in Invocations : FirstDraft(i)
    \/ \E i \in Invocations : ImprovementPlan(i)
    \/ \E i \in Invocations : PlanSaved(i)
    \/ \E i \in Invocations : FinalChapter(i)
    \/ \E i \in Invocations : CompleteChapter(i)
    \/ \E i \in Invocations, a \in Saves : novel_write_text_open(i, a)
    \/ \E i \in Invocations, a \in Saves : novel_write_text_close(i, a)
    \/ update_chapter
    \/ \E u \in Updaters : novel_update_manifest_read(u)
    \/ \E u \in Updaters : novel_update_manifest_open(u)
    \/ \E u \in Updaters : novel_update_manifest_close(u)
    \/ \E i \in Invocations : GenerationFails(i)
    \/ \E i \in Invocations, a \in Saves : WriteLost(i, a)
    \/ \E u \in Updaters : ManifestWriteLost(u)

\* the executions run with the review controller left at its start
InitVault ==
    /\ Init
    /\ kind = "final_chapter"
    /\ auto_approve
    /\ auto_approve_improvements
    /\ deadline = 0

VaultSpec == InitVault /\ [][NextVault]_vars

(***************************************************************************)
(* The API applies the phase inferencer to a project.                      *)
(***************************************************************************)
\* the handler infers the phase state and patches the flags into the manifest
RefreshPhaseState ==
    LET result == infer_project_phase_state(exists, state) IN
    /\ inferred' = <<result>>
    /\ state' = [state EXCEPT !.phases_completed = result.phases_completed,
                              !.current_phase = result.current_phase]
    /\ UNCHANGED <<controllerVars, runVars, vaultVars, callVars, exists>>

NextInfer == RefreshPhaseState

\* any stored artifacts and any chapter list, with flags never refreshed
InitInfer ==
    /\ ControllerInit
    /\ kind = "final_chapter"
    /\ auto_approve
    /\ auto_approve_improvements
    /\ deadline = 0
    /\ VaultStart
    /\ exists \in SUBSET InferPaths
    /\ \E chapters \in ChapterLists, total \in TotalChapters :
          state = FreshState(chapters, total)
    /\ inferred = <<>>
    /\ CallStart
    /\ NoRun

InferSpec == InitInfer /\ [][NextInfer]_vars

(***************************************************************************)
(* A phase-7 execution asks for the previous chapter's text.                *)
(***************************************************************************)
\* no controller takes a step
Elsewhere ==
    /\ ControllerInit
    /\ kind = "final_chapter"
    /\ auto_approve
    /\ auto_approve_improvements
    /\ deadline = 0

\* get_previous_chapter_activity
GetPreviousChapter ==
    /\ call.op = "novel_get_previous_chapter_final"
    /\ ret = <<>>
    /\ ret' = <<novel_get_previous_chapter_final(exists, call.chapter_number)>>
    /\ UNCHANGED <<controllerVars, runVars, vaultVars, inferVars, call, outline_md, textVars>>

NextLookup == GetPreviousChapter

\* any chapter files, any chapter number
InitLookup ==
    /\ Elsewhere
    /\ VaultStart
    /\ exists \in ProjectFiles
    /\ state = FreshState(<<>>, <<0>>)
    /\ inferred = <<>>
    /\ call \in [op : {"novel_get_previous_chapter_final"}, chapter_number : 0..3]
    /\ ret = <<>>
    /\ outline_md = <<>>
    /\ NoText
    /\ NoRun

LookupSpec == InitLookup /\ [][NextLookup]_vars

(***************************************************************************)
(* One novel_update_manifest call on a stored manifest.                    *)
(***************************************************************************)
NextMerge ==
    \/ novel_update_manifest_read(ApiUpdater)
    \/ novel_update_manifest_open(ApiUpdater)
    \/ novel_update_manifest_close(ApiUpdater)

\* any manifest is stored, the call with any patch is about to read it
InitMerge ==
    /\ Elsewhere
    /\ NoExecution
    /\ ProjectStart
    /\ upd = [u \in Updaters |-> IF u = ApiUpdater THEN "scheduled" ELSE "none"]
    /\ \E doc \in MergeDocs : project_json = Stored(doc)
    /\ call \in [op : {"novel_update_manifest"}, patch : MergeDocs]
    /\ ret = <<>>
    /\ outline_md = <<>>
    /\ NoText
    /\ NoRun

MergeSpec == InitMerge /\ [][NextMerge]_vars

(***************************************************************************)
(* The chapter list of the manifest: outline parses, imports and chapter   *)
(* updates of one project, one request after the other.                    *)
(***************************************************************************)
\* no novel_update_manifest call is under way
NoUpdate == upd[ApiUpdater] \in {"none", "done"}

\* a parse that replaces the manifest's state by its patch
parse_outline_activity_replacing ==
    /\ NoUpdate
    /\ call' = [op |-> "novel_parse_outline"]
    /\ IF outline_md = <<>>
       THEN /\ ret' = <<[raised |-> "FileNotFoundError", chapters |-> <<>>]>>
            /\ UNCHANGED project_json
       ELSE LET chapters == novel_parse_outline(outline_md[1]) IN
            /\ ret' = <<[raised |-> "", chapters |-> chapters]>>
            /\ IF chapters # <<>>
               THEN project_json' =
                        Stored(deep_merge_shallow(project_json[1].text, ParsePatch(chapters)))
               ELSE UNCHANGED project_json
    /\ UNCHANGED <<controllerVars, runVars, inferVars, outline_md, textVars, chapter_number, ipc, context_bundle,
                   act, upd, manifest, files, bundle_file>>

\* parse_outline_activity: novel_parse_outline with its manifest update
parse_outline_activity ==
    /\ NoUpdate
    /\ call' = [op |-> "novel_parse_outline"]
    /\ IF outline_md = <<>>
       THEN /\ ret' = <<[raised |-> "FileNotFoundError", chapters |-> <<>>]>>
            /\ UNCHANGED project_json
       ELSE LET chapters == novel_parse_outline(outline_md[1]) IN
            /\ ret' = <<[raised |-> "", chapters |-> chapters]>>
            /\ IF chapters # <<>>
               THEN project_json' =
                        Stored(deep_merge(project_json[1].text, ParsePatch(chapters)))
               ELSE UNCHANGED project_json
    /\ UNCHANGED <<controllerVars, runVars, inferVars, outline_md, textVars, chapter_number, ipc, context_bundle,
                   act, upd, manifest, files, bundle_file>>

\* _apply_project_import: the outline that came with the request and the
\* chapter files are written, a minimal bundle if there is none, the stored outline is
\* parsed when an outline came with the request (a failure is swallowed), and
\* the imported chapters are merged into the manifest's list; a chapter
\* number below 1 raises ValueError.  Then the phase flags inferred from the
\* files and the stored state are patched in (updated_at is not modelled).
_apply_project_import ==
    \E import_data \in ImportRequests :
        LET imported == import_data.chapters
            parsed == IF import_data.outline /\ outline_md # <<>>
                      THEN novel_parse_outline(outline_md[1]) ELSE <<>>
            doc == IF parsed # <<>>
                   THEN deep_merge(project_json[1].text, ParsePatch(parsed))
                   ELSE project_json[1].text
            manifest_doc == IF imported # <<>>
                            THEN deep_merge(doc, ImportPatch(doc, imported)) ELSE doc
            present == exists \cup {ChapterFinal("phase7_outputs", imported[k].number) :
                                        k \in 1..Len(imported)}
                              \cup (IF import_data.outline
                                    THEN {Path("phase6_outputs", "outline.md")} ELSE {})
                              \cup {BundlePath}
        IN  /\ NoUpdate
            /\ \A k \in 1..Len(imported) : imported[k].number >= 1
            /\ call' = [op |-> "_apply_project_import", import_data |-> import_data]
            /\ exists' = present
            /\ project_json' = Stored(deep_merge(manifest_doc, RefreshPatch(present, manifest_doc)))
            /\ UNCHANGED <<controllerVars, runVars, state, inferred, ret, outline_md, textVars, chapter_number, ipc,
                           context_bundle, act, upd, manifest, files, bundle_file>>

NextOutline ==
    \/ parse_outline_activity
    \/ _apply_project_import
    \/ update_chapter
    \/ novel_update_manifest_read(ApiUpdater)
    \/ novel_update_manifest_open(ApiUpdater)
    \/ novel_update_manifest_close(ApiUpdater)

\* any outline document, or none, beside a new project's manifest or an older one
InitOutline ==
    /\ Elsewhere
    /\ NoExecution
    /\ upd = [u \in Updaters |-> "none"]
    /\ \E doc \in Manifests : project_json = Stored(doc)
    /\ exists = {_get_project_path}
    /\ state = FreshState(<<>>, <<0>>)
    /\ inferred = <<>>
    /\ call = [op |-> "none"]
    /\ ret = <<>>
    /\ outline_md \in {<<>>} \cup {<<content>> : content \in Outlines}
    /\ NoText
    /\ NoRun

OutlineSpec == InitOutline /\ [][NextOutline]_vars

(***************************************************************************)
(* The context bundle rewritten by the style-sheet generator of the API    *)
(* and by the chapter-writing controller, one rewrite after the other.     *)
(***************************************************************************)
\* generate_style_sheet_from_chapters: the style sheet the model call returns
\* is written, upserted into the stored bundle as section STYLE_SHEET, and
\* the phase flags are refreshed; 400 when style_sheet.md exists and
\* overwrite is not set, or when no chapter text is found
generate_style_sheet_from_chapters ==
    \E style_sheet \in StyleSheets, overwrite \in BOOLEAN :
        LET chapters == chapters_data(project_json[1].text)
            present == exists \cup {Path("phase1_outputs", "style_sheet.md")}
        IN  /\ edits < MaxEdits
            /\ NoUpdate
            /\ Path("phase1_outputs", "style_sheet.md") \in exists => overwrite
            /\ \E k \in 1..Len(chapters), dir \in ChapterDirs :
                  chapters[k].number > 0 /\ ChapterFinal(dir, chapters[k].number) \in exists
            /\ call' = [op |-> "generate_style_sheet_from_chapters", style_sheet |-> style_sheet]
            /\ exists' = present
            /\ bundle_md' = IF BundlePath \in exists
                            THEN _upsert_context_bundle_section(bundle_md, STYLE_SHEET, style_sheet)
                            ELSE bundle_md
            /\ edits' = edits + 1
            /\ touched' = touched \cup {"artifact"}
            /\ project_json' = Stored(deep_merge(project_json[1].text,
                                                 RefreshPatch(present, project_json[1].text)))
            /\ UNCHANGED <<controllerVars, runVars, state, inferred, ret, outline_md, chapter_number, ipc,
                           context_bundle, act, upd, manifest, files, bundle_file>>

\* run() of the chapter-writing controller, steps 8 and 9: the approved
\* chapter is put into the bundle's DRAFTING_PROGRESS section and both are saved
SaveChapterAndBundle ==
    \E number \in Chapters, final_chapter \in ChapterTexts :
        /\ edits < MaxEdits
        /\ BundlePath \in exists
        /\ call' = [op |-> "_update_context_bundle_with_chapter", chapter_number |-> number,
                    final_chapter |-> final_chapter]
        /\ bundle_md' = _update_context_bundle_with_chapter(bundle_md, number, final_chapter)
        /\ edits' = edits + 1
        /\ exists' = exists \cup {ChapterFinal("phase7_outputs", number)}
        /\ touched' = touched \cup {"artifact"}
        /\ UNCHANGED <<controllerVars, runVars, vaultVars, state, inferred, ret, outline_md>>

NextBundle ==
    \/ generate_style_sheet_from_chapters
    \/ SaveChapterAndBundle

\* the level-2 headings of a text: the names after "##", in the order met
headings_of(text) ==
    LET lines == SelectSeq(text, next_h2_re) IN
    [k \in 1..Len(lines) |-> Strip(SubSeq(lines[k], 3, Len(lines[k])))]
\* no name heads two sections
unique_headers(text) ==
    \A j, k \in 1..Len(headings_of(text)) :
        headings_of(text)[j] = headings_of(text)[k] => j = k

\* a project with one finished chapter and any stored bundle whose sections
\* have different names
InitBundle ==
    /\ Elsewhere
    /\ VaultStart
    /\ exists = {_get_project_path, BundlePath, ChapterFinal("phase7_outputs", 1)}
    /\ state = FreshState(<<>>, <<0>>)
    /\ inferred = <<>>
    /\ call = [op |-> "none"]
    /\ ret = <<>>
    /\ outline_md = <<>>
    /\ bundle_md \in {text \in Bundles : unique_headers(text)}
    /\ edits = 0
    /\ touched = {}
    /\ NoRun

BundleSpec == InitBundle /\ [][NextBundle]_vars

(***************************************************************************)
(* Artifact writes: by the controllers, the import and the artifact update. *)
(***************************************************************************)
\* save_artifact_activity as the controllers call it: the path is one the
\* workflow code spells out
save_artifact_activity ==
    \E path \in {<<"a", "/", "a">>, <<"a", "/", "a", "/", "a">>} :
        /\ touched' = novel_write_text(path)
        /\ UNCHANGED <<controllerVars, runVars, vaultVars, inferVars, call, ret, outline_md, bundle_md, edits>>

\* import_into_project for a request that carries one entry of artifacts and
\* overwrite: _maybe_write_artifact sanitizes the path and writes under the
\* safe path, then the phase flags are refreshed; ValueError ends the request
import_into_project ==
    LET safe_path == _sanitize_relative_artifact_path(call.path) IN
    /\ call.op = "import_into_project"
    /\ ret = <<>>
    /\ NoUpdate
    /\ ret' = <<safe_path>>
    /\ IF safe_path.raised # ""
       THEN UNCHANGED <<touched, project_json>>
       ELSE /\ touched' = novel_write_text(safe_path.path)
            /\ project_json' = Stored(deep_merge(project_json[1].text,
                                                 RefreshPatch(exists, project_json[1].text)))
    /\ UNCHANGED <<controllerVars, runVars, inferVars, call, outline_md, bundle_md, edits, chapter_number,
                   ipc, context_bundle, act, upd, manifest, files, bundle_file>>

\* update_artifact: PUT /projects/{project_id}/artifacts/{artifact_path:path}
update_artifact ==
    /\ call.op = "update_artifact"
    /\ ret = <<>>
    /\ ret' = <<[raised |-> IF file_path(call.path) = "" THEN "HTTPException" ELSE "",
                 path |-> call.path]>>
    /\ touched' = novel_write_text(call.path)
    /\ UNCHANGED <<controllerVars, runVars, vaultVars, inferVars, call, outline_md, bundle_md, edits>>

NextArtifact ==
    \/ save_artifact_activity
    \/ import_into_project
    \/ update_artifact

\* a project whose bundle exists, nothing written yet, and the request the
\* API is about to serve: an import or an artifact update with any path
InitArtifact ==
    /\ Elsewhere
    /\ VaultStart
    /\ exists = {_get_project_path, BundlePath}
    /\ state = FreshState(<<>>, <<0>>)
    /\ inferred = <<>>
    /\ call \in [op : {"import_into_project", "update_artifact"}, path : ArtifactPaths]
    /\ ret = <<>>
    /\ outline_md = <<>>
    /\ NoText
    /\ NoRun

ArtifactSpec == InitArtifact /\ [][NextArtifact]_vars

(***************************************************************************)
(* Phase-status requests answered from the manifest while controllers      *)
(* write artifacts.                                                        *)
(***************************************************************************)
\* the artifacts of the first three phases
StatusPaths ==
    Phase1Artifacts \cup Phase2Artifacts \cup {Path("phase3_outputs", "call_sheet.md")}

\* a controller's save_artifact_activity writes one artifact of its phase;
\* no controller patches phases_completed
ArtifactSaved ==
    \E path \in StatusPaths \ exists :
        /\ exists' = exists \cup {path}
        /\ UNCHANGED <<controllerVars, runVars, vaultVars, callVars, state, inferred>>

\* get_phase_status without a workflow_id, or when the query of the workflow
\* fails: the fall-back to the manifest
get_phase_status ==
    \E phase \in Phases :
        LET phases_completed == state.phases_completed IN
        /\ call' = [op |-> "get_phase_status", phase |-> phase]
        /\ ret' = <<[status |-> IF InList(phases_completed, phase)
                                THEN "completed" ELSE "not_started"]>>
        /\ UNCHANGED <<controllerVars, runVars, vaultVars, inferVars, outline_md, textVars>>

NextStatus ==
    \/ ArtifactSaved
    \/ RefreshPhaseState
    \/ get_phase_status

\* a project as create_project leaves it
InitStatus ==
    /\ Elsewhere
    /\ VaultStart
    /\ ProjectStart
    /\ CallStart
    /\ NoRun

StatusSpec == InitStatus /\ [][NextStatus]_vars

(***************************************************************************)
(* The step-wise chapter pipeline: five workflows, each one step of a      *)
(* chapter, started one after the other in any order by the client.        *)
(***************************************************************************)
\* the files of phase7_outputs/chapter_N the step workflows write
StepFiles ==
    {"scene_brief.md", "first_draft.md", "improvement_plan.md", "revised_draft.md", "final.md"}

\* a generated text: the serial number of the generation call and the
\* serial number of the text its prompt was built around (0 = none)
Text(n, source) == [n |-> n, from |-> source]

\* the serial number of the next generation call
Fresh ==
    LET used == {artifacts[f][1].n : f \in {g \in StepFiles : artifacts[g] # <<>>}} IN
    IF used = {} THEN 1 ELSE 1 + (CHOOSE n \in used : \A other \in used : other <= n)

\* run() of a step workflow: the loads without try/except fail the run when
\* the file is missing (load_artifact_activity raises); otherwise the text
\* generated from `source` is saved to `target`.  relevant_context.md is
\* optional everywhere and left out.
StepRun(name, required, source, target, variables) ==
    /\ workflow' = name
    /\ IF \E f \in required : artifacts[f] = <<>>
       THEN /\ outcome' = "failed"
            /\ locals' = <<>>
            /\ UNCHANGED artifacts
       ELSE /\ outcome' = "completed"
            /\ locals' = variables
            /\ artifacts' = [artifacts EXCEPT ![target] =
                                <<Text(Fresh, IF source = "" THEN 0 ELSE artifacts[source][1].n)>>]
    /\ UNCHANGED <<controllerVars, vaultVars, inferVars, callVars, suspended_at, attempt>>

Phase7SceneBriefWorkflow ==
    /\ Fresh <= MaxRuns
    /\ StepRun("Phase7SceneBriefWorkflow", {}, "", "scene_brief.md", <<>>)

Phase7FirstDraftWorkflow ==
    /\ Fresh <= MaxRuns
    /\ StepRun("Phase7FirstDraftWorkflow", {"scene_brief.md"}, "scene_brief.md", "first_draft.md", <<>>)

Phase7ImprovementPlanWorkflow ==
    /\ Fresh <= MaxRuns
    /\ StepRun("Phase7ImprovementPlanWorkflow", {"scene_brief.md", "first_draft.md"},
            "first_draft.md", "improvement_plan.md", <<>>)

Phase7ApplyImprovementPlanWorkflow ==
    /\ Fresh <= MaxRuns
    /\ StepRun("Phase7ApplyImprovementPlanWorkflow", {"first_draft.md", "improvement_plan.md"},
            "first_draft.md", "revised_draft.md", <<>>)

\* a Final step that takes the later of the two drafts
Phase7FinalWorkflow_latest ==
    LET draft_source ==
            IF artifacts["revised_draft.md"] # <<>> /\ artifacts["first_draft.md"] # <<>>
               /\ artifacts["revised_draft.md"][1].n > artifacts["first_draft.md"][1].n
            THEN "revised_draft" ELSE "first_draft"
    IN  /\ Fresh <= MaxRuns
        /\ StepRun("Phase7FinalWorkflow", {"scene_brief.md", "first_draft.md"},
                IF draft_source = "revised_draft" THEN "revised_draft.md" ELSE "first_draft.md",
                "final.md", [draft_source |-> draft_source])

\* Phase7FinalWorkflow.run: the draft is revised_draft.md when that file can
\* be loaded (a generated text is not blank), first_draft.md otherwise
Phase7FinalWorkflow ==
    LET draft_source == IF artifacts["revised_draft.md"] # <<>>
                        THEN "revised_draft" ELSE "first_draft"
    IN  /\ Fresh <= MaxRuns
        /\ StepRun("Phase7FinalWorkflow", {"scene_brief.md", "first_draft.md"},
                IF draft_source = "revised_draft" THEN "revised_draft.md" ELSE "first_draft.md",
                "final.md", [draft_source |-> draft_source])

NextStepwise ==
    \/ Phase7SceneBriefWorkflow
    \/ Phase7FirstDraftWorkflow
    \/ Phase7ImprovementPlanWorkflow
    \/ Phase7ApplyImprovementPlanWorkflow
    \/ Phase7FinalWorkflow

\* a chapter of which nothing is written yet
InitStepwise ==
    /\ Elsewhere
    /\ VaultStart
    /\ ProjectStart
    /\ CallStart
    /\ workflow = ""
    /\ suspended_at = 0
    /\ attempt = 0
    /\ outcome = ""
    /\ locals = <<>>
    /\ artifacts = [f \in StepFiles |-> <<>>]

StepwiseSpec == InitStepwise /\ [][NextStepwise]_vars

(***************************************************************************)
(* Properties of the review loops.                                         *)
(***************************************************************************)
\* the bound K the loop of each kind is documented to have
DocumentedK == IF kind \in {"story_bible", "final_chapter"} THEN 3 ELSE 5

\* run() leaves the decision wait of a review loop in this step
DecisionStep == pc = "wait_decision" /\ pc' # "wait_decision"

\* the upper-cased decision the decision wait hands to the classification
ConsumedDecisionText ==
    CASE kind = "context_bundle" -> context_approval[1]
      [] kind = "final_chapter" ->
           DecisionText(Get(Received({"decision"}), "decision", <<>>))
      [] OTHER -> DecisionText(Get(human_input[1], "decision", <<>>))

\* C1: in every review loop a decision containing neither APPROVE nor REVISE
\* ends the loop as approved: no revision-notes request, no regeneration call,
\* and the current draft is what the loop returns.
C1_UnrecognisedDecisionApproves ==
    [][ (DecisionStep
         /\ ~Contains(ConsumedDecisionText, APPROVE)
         /\ ~Contains(ConsumedDecisionText, REVISE))
        => (/\ pc' = "post"
            /\ notes_requests' = notes_requests
            /\ regenerations' = regenerations
            /\ llm_calls' = llm_calls
            /\ results'["draft"] = results["draft"]) ]_vars

\* C2: in the single-slot controllers a review wait returns only for a response
\* that holds at least one of the expected keys.
C2_GateNeedsExpectedKey ==
    [][ (kind \in SingleSlotKinds /\ pc \in {"wait_decision", "wait_notes"} /\ pc' # pc)
        => HasAnyKey(human_input[1], pending_expected_outputs) ]_vars

\* C3: in the chapter-writing controller a wait returns only when the inbox
\* holds a response with an expected key, and the responses without one stay
\* in the inbox, unchanged and in their order.
C3_WaitConsumesOnlyMatching ==
    [][ (kind = "final_chapter" /\ pc \in WaitPcs /\ pc' # pc)
        => LET E == pending_expected_outputs
               NoKey(item) == ~HasAnyKey(item, E)
               old == SelectSeq(human_inputs, NoKey)
               new == SelectSeq(human_inputs', NoKey)
           IN  /\ \E i \in 1..Len(human_inputs) : HasAnyKey(human_inputs[i], E)
               /\ Len(new) >= Len(old)
               /\ SubSeq(new, Len(new) - Len(old) + 1, Len(new)) = old ]_vars

\* a decision was consumed, a response without an expected key is still there
C3_Witness ==
    /\ kind = "final_chapter"
    /\ pc = "wait_notes"
    /\ decision_requests = 1
    /\ human_inputs = <<Dict1("custom_notes", "n1")>>

\* C4: in the chapter-writing controller the revision notes that came with the
\* consumed REVISE decision are at the front of the inbox when the notes wait
\* starts, satisfy it, and are the notes the revision call receives.
C4_ExtraKeysServeNextWait ==
    [][ /\ (kind = "final_chapter" /\ pc = "wait_decision" /\ pc' = "wait_notes"
            /\ Has(decision', "revision_notes"))
           => (/\ human_inputs' # <<>>
               /\ human_inputs'[1] = Dict1("revision_notes", decision'["revision_notes"][1])
               /\ AwaitReady({"revision_notes"})')
        /\ (kind = "final_chapter" /\ pc = "wait_notes" /\ pc' = "regenerate"
            /\ Has(decision, "revision_notes"))
           => (/\ revision_notes' = decision["revision_notes"][1]
               /\ Len(human_inputs') = Len(human_inputs) - 1) ]_vars

\* the notes of {decision: REVISE, revision_notes: n1} reached the revision call
\* and nothing else was in the inbox
C4_Witness ==
    /\ kind = "final_chapter"
    /\ pc = "regenerate"
    /\ decision = Dict2("decision", TxtRevise, "revision_notes", "n1")
    /\ revision_notes = "n1"
    /\ human_inputs = <<>>

\* C5: in the single-slot controllers the keys of a response stay available
\* until a wait that expects them: notes that came with the REVISE decision
\* are there for the notes wait, and a response delivered during a generation
\* is there for the wait that follows.
C5_ResponsesKeptUntilConsumed ==
    [][ /\ (kind \in SingleSlotKinds /\ pc = "wait_decision" /\ pc' = "wait_notes"
            /\ Has(human_input[1], "revision_notes"))
           => (human_input' # <<>> /\ Has(human_input'[1], "revision_notes"))
        /\ (kind \in SingleSlotKinds /\ pc \in {"generate", "regenerate", "sb_save"}
            /\ human_input # <<>> /\ pc' \in WaitPcs)
           => human_input' = human_input ]_vars

\* the steps of one REVISE round of the series-outline and final-chapter loops;
\* `lastEnds` says whether the K-th regeneration ends the loop
ReviseRound(lastEnds) ==
    kind \in {"series_outline", "final_chapter"} =>
    /\ (DecisionStep
        /\ Contains(ConsumedDecisionText, REVISE)
        /\ ~Contains(ConsumedDecisionText, APPROVE))
       => (/\ pc' = "wait_notes"
           /\ pending_expected_outputs' = {"revision_notes"}
           /\ notes_requests' = notes_requests + 1
           /\ regenerations' = regenerations
           /\ llm_calls' = llm_calls)
    /\ (pc = "wait_notes" /\ pc' # pc)
       => (/\ pc' = "regenerate"
           /\ notes_requests' = notes_requests
           /\ regenerations' = regenerations
           /\ llm_calls' = llm_calls)
    /\ (pc = "regenerate" /\ pc' # pc)
       => (/\ regenerations' = regenerations + 1
           /\ llm_calls' = llm_calls + 1
           /\ last_regen' = <<[draft |-> results["draft"], notes |-> revision_notes]>>
           /\ results'["draft"] = llm_calls'
           /\ notes_requests' = notes_requests
           /\ IF lastEnds /\ regenerations' = DocumentedK
              THEN /\ pc' = "post"
                   /\ decision_requests' = decision_requests
              ELSE /\ pc' = "wait_decision"
                   /\ decision_requests' = decision_requests + 1
                   /\ pending_content' = <<"review", results'["draft"]>>
                   /\ pending_expected_outputs' = {"decision"})

\* C6, as stated: a REVISE decision leads to one notes request, one
\* regeneration with the current draft and the notes, and then a new decision
\* request that shows the regenerated draft; the loop does not end in between.
C6_ReviseLeadsToNewReview == [][ReviseRound(FALSE)]_vars

\* C6, amended: ... and then a new decision request that shows the regenerated
\* draft, unless the regeneration was the K-th of the loop, which ends it.
C6_ReviseLeadsToNewReviewUnlessLast == [][ReviseRound(TRUE)]_vars

\* a REVISE round has led to the second decision request, on the new draft
C6_Witness ==
    /\ kind \in {"series_outline", "final_chapter"}
    /\ pc = "wait_decision"
    /\ notes_requests = 1
    /\ regenerations = 1
    /\ decision_requests = 2
    /\ last_regen # <<>>
    /\ pending_content = <<"review", results["draft"]>>
    /\ results["draft"] > last_regen[1].draft

\* C7: a loop publishes at most K decision requests and makes at most K
\* regenerations; after the K-th regeneration the loop is left without an
\* error and the regenerated draft is the one returned and saved.
C7_LoopBoundedByK ==
    /\ decision_requests <= DocumentedK
    /\ regenerations <= DocumentedK
    /\ regenerations = DocumentedK
       => (/\ pc \in {"sb_save", "post", "done"}
           /\ ~wait_timed_out
           /\ decision_requests = DocumentedK
           /\ results["draft"] > last_regen[1].draft
           /\ wfState = "completed" => written[ReviewedPath(kind)] = results["draft"])

\* every decision was REVISE and the execution completed
C7_Witness ==
    /\ regenerations = DocumentedK
    /\ decision_requests = DocumentedK
    /\ wfState = "completed"

C10_AliveWhileWaiting ==
    (pc \in WaitPcs /\ waited < ReviewWaitHours) => Open

\* ---------------------------------------------------------------------------
\* C11: generate, then review, then persist: while a review request is
\* pending, or after a review wait timed out, the artifact under review has
\* not been written by this invocation.
C11_ReviewedArtifactPersistedAfterReview ==
    (pc \in {"wait_decision", "wait_notes"} \/ wait_timed_out)
        => written[ReviewedPath(kind)] = 0

\* ---------------------------------------------------------------------------
\* C12: whenever the controller is not waiting for a human response, the
\* pending-content query returns absent.
C12_PendingOnlyWhileWaiting ==
    pc \notin WaitPcs => pending_content = <<>>

\* ---------------------------------------------------------------------------
\* C13: in the improvement step of the chapter-writing controller a decision
\* containing SKIP returns the first draft with no generation call; otherwise
\* one containing CUSTOM publishes one request for custom_notes and is
\* followed by exactly one revision call that carries those notes; any other
\* decision is followed by exactly one revision call carrying only the plan.
ImprovePcs == {"improve", "wait_improve", "wait_custom", "apply_plan", "apply_custom"}

\* a step of the running controller that leaves the given position
Leaves(at) == pc = at /\ pc' # at /\ wfState = "running" /\ wfState' = "running"

\* the revision call made by this step, with the given <custom_notes> section
OneRevision(notes) ==
    /\ llm_calls' = llm_calls + 1
    /\ results'["draft"] = llm_calls + 1
    /\ last_apply' = <<[draft |-> results["first_draft"],
                        plan |-> results["improvement_plan"], notes |-> notes]>>
    /\ pc' \notin ImprovePcs

ImprovementStep ==
    /\ Leaves("wait_improve") =>
          LET decision_text == DecisionText(Get(Received({"decision"}), "decision", <<>>)) IN
          /\ llm_calls' = llm_calls
          /\ last_apply' = <<>>
          /\ IF Contains(decision_text, SKIP)
             THEN /\ results'["draft"] = results["first_draft"]
                  /\ results["first_draft"] # 0
                  /\ pc' \notin ImprovePcs
             ELSE IF Contains(decision_text, CUSTOM)
             THEN /\ pc' = "wait_custom"
                  /\ pending_expected_outputs' = {"custom_notes"}
                  /\ pending_content' # <<>>
             ELSE pc' = "apply_plan"
    /\ Leaves("wait_custom") =>
          /\ pc' = "apply_custom"
          /\ custom_notes' = Received({"custom_notes"})["custom_notes"][1]
          /\ llm_calls' = llm_calls
    /\ Leaves("apply_custom") => OneRevision(<<custom_notes>>)
    /\ Leaves("apply_plan") => OneRevision(<<>>)
    /\ (pc \notin ImprovePcs /\ kind = "final_chapter") => last_apply' = last_apply

C13_ImprovementDecisionBranches == [][ImprovementStep]_vars

\* the CUSTOM branch was taken and its revision call carried the notes sent
C13_Witness ==
    /\ kind = "final_chapter"
    /\ pc = "wait_decision"
    /\ last_apply # <<>>
    /\ last_apply[1].notes = <<"n1">>
    /\ Contains(DecisionText(Get(decision, "decision", <<>>)), CUSTOM)

(***************************************************************************)
(* Properties of the executions against the shared files.                  *)
(***************************************************************************)
\* the saves of chapter artifacts an execution has started and not yet seen finish
ChapterWritesInFlight(i) == {a \in ChapterArtifacts : InFlight(act[i][a])}

\* the chapter-artifact saves run() starts before the save of the given artifact
EarlierSaves(a) ==
    CASE a = "scene_brief" -> {}
      [] a = "first_draft" -> {"scene_brief"}
      [] a = "improvement_plan" -> {"scene_brief", "first_draft"}
      [] a = "final" -> {"scene_brief", "first_draft", "improvement_plan"}

ManifestStoreStep(u) == upd[u] = "open" /\ upd'[u] = "done"

C15_ManifestUpdateIsReadMergeWrite ==
    [][\A u \in Updaters :
          /\ ManifestStoreStep(u) =>
                project_json' = Stored(deep_merge(manifest[u], Patch(u)))
          /\ (upd[u] = "scheduled" /\ upd'[u] = "read") =>
                manifest'[u] = project_json[1].text]_vars

\* both updates have returned and the stored manifest holds the chapter
\* number patched by the execution but not the chapter list patched by the API
C15_Witness ==
    /\ upd["run1"] = "done"
    /\ upd[ApiUpdater] = "done"
    /\ project_json[1].whole
    /\ "current_chapter_number" \in DOMAIN project_json[1].text["state"].items
    /\ project_json[1].text["state"].items["chapters"] = EmptyDoc["state"].items["chapters"]

\* ---------------------------------------------------------------------------
\* C16: overlapping executions for one project can both complete while the
\* stored context bundle holds the update of only one: each execution writes
\* back the copy it loaded at its start with its own chapter block upserted,
\* and the last write wins.
BundleStoreStep(i) == act[i]["context_bundle"] = "open" /\ act'[i]["context_bundle"] = "done"

C16_BundleWrittenFromStartCopy ==
    [][\A i \in Invocations :
          /\ BundleStoreStep(i) =>
                bundle_file' = Stored(update_context_bundle_with_chapter(
                                          context_bundle[i], chapter_number[i], i))
          /\ (Executing(i) /\ ipc[i] # "loading" /\ ipc'[i] # "completed") =>
                context_bundle'[i] = context_bundle[i]]_vars

\* both executions completed, for different chapters, and the stored bundle
\* holds the chapter of the second only
C16_Witness ==
    /\ ipc["run1"] = "completed"
    /\ ipc["run2"] = "completed"
    /\ chapter_number["run1"] # chapter_number["run2"]
    /\ bundle_file[1].whole
    /\ bundle_file[1].text[chapter_number["run1"]] = ""
    /\ bundle_file[1].text[chapter_number["run2"]] = "run2"

\* ---------------------------------------------------------------------------
\* C17: in every state in which no write call is running, also after an
\* execution or the process was terminated abruptly, each stored artifact is
\* the complete content of one write call and the manifest is the complete
\* document of one update.
NoWriteRunning ==
    /\ \A i \in Invocations, a \in Saves : act[i][a] # "open"
    /\ \A u \in Updaters : upd[u] # "open"

C17_StoredDocumentsWhole ==
    NoWriteRunning =>
        /\ \A p \in Chapters \X ChapterArtifacts : files[p] # <<>> => files[p][1].whole
        /\ bundle_file[1].whole
        /\ project_json[1].whole

\* ---------------------------------------------------------------------------
\* C18: artifacts written before a failure are never removed, and a re-run
\* with the same inputs overwrites the same paths: after a failed execution
\* and a successful one for the same chapter the artifact paths present are
\* those one successful execution alone leaves.
Present == {p \in Chapters \X ChapterArtifacts : files[p] # <<>>}
SuccessPaths(n) == {chapter_dir(n)[a] : a \in ChapterArtifacts}

RerunLeavesSamePaths ==
    /\ (ipc["run1"] = "completed" /\ ipc["run2"] = "idle")
          => Present = SuccessPaths(chapter_number["run1"])
    /\ \A i, j \in Invocations :
          (ipc[i] = "failed" /\ ipc[j] = "completed"
             /\ chapter_number[i] = chapter_number[j])
          => Present = SuccessPaths(chapter_number[j])

C18_RerunIdempotentOnPaths ==
    /\ []RerunLeavesSamePaths
    /\ [][\A p \in Chapters \X ChapterArtifacts : files[p] # <<>> => files'[p] # <<>>]_vars

\* the first execution failed after saving its scene brief; the second ran for
\* the same chapter, overwrote that file and completed
C18_Witness ==
    /\ ipc["run1"] = "failed"
    /\ act["run1"]["scene_brief"] = "done"
    /\ ipc["run2"] = "completed"
    /\ chapter_number["run2"] = chapter_number["run1"]
    /\ files[chapter_dir(chapter_number["run1"])["scene_brief"]] = Stored("run2")
    /\ Present = SuccessPaths(chapter_number["run1"])

(***************************************************************************)
(* Properties of the phase inferencer.                                     *)
(***************************************************************************)
\* the lowest phase whose completion predicate is false, 8 when there is none
LowestIncomplete(done) ==
    IF \A p \in Phases : done[p]
    THEN 8
    ELSE CHOOSE p \in Phases : ~done[p] /\ \A q \in 1..(p - 1) : done[q]

\* ---------------------------------------------------------------------------
\* C19: the inferencer returns as completed exactly the phases whose
\* completion predicate holds and as current phase the lowest phase in 1..8
\* whose predicate is false, or 8 when all hold; with only the phase-1
\* artifacts and the series outline present it returns [1, 2] and 3.
C19_CurrentPhaseIsLowestIncomplete ==
    LET r == infer_project_phase_state(exists, state)
        done == phase_completed_map(exists, state) IN
    /\ \A p \in Phases : InList(r.phases_completed, p) <=> done[p]
    /\ \A k \in 1..(Len(r.phases_completed) - 1) :
          r.phases_completed[k] < r.phases_completed[k + 1]
    /\ r.current_phase = LowestIncomplete(done)
    /\ exists = Phase1Artifacts \cup Phase2Artifacts =>
          (r.phases_completed = <<1, 2>> /\ r.current_phase = 3)
    /\ inferred # <<>> => inferred[1].current_phase = LowestIncomplete(done)

\* the inferencer ran on a project holding the phase-1 artifacts and the series
\* outline only
C19_Witness ==
    /\ exists = Phase1Artifacts \cup Phase2Artifacts
    /\ inferred # <<>>
    /\ inferred[1].phases_completed = <<1, 2>>
    /\ inferred[1].current_phase = 3
    /\ state.current_phase = 3

\* values the stored flags phases_completed and current_phase can have
StoredFlags ==
    {[phases_completed |-> <<>>, current_phase |-> 1],
     [phases_completed |-> <<3>>, current_phase |-> 5],
     [phases_completed |-> PhaseList, current_phase |-> 8]}
WithFlags(st, f) ==
    [st EXCEPT !.phases_completed = f.phases_completed, !.current_phase = f.current_phase]

\* ---------------------------------------------------------------------------
\* C20: for the same stored artifacts, manifests that differ only in their
\* stored phases_completed and current_phase yield the same completed phases,
\* current phase and chapters completed.
C20_StoredFlagsIgnored ==
    /\ \A f \in StoredFlags :
          infer_project_phase_state(exists, WithFlags(state, f))
              = infer_project_phase_state(exists, state)
    /\ inferred # <<>> => inferred[1] = infer_project_phase_state(exists, state)

\* the result was computed from never-refreshed flags and the manifest now
\* stores other flags, with a chapter counted as completed
C20_Witness ==
    /\ inferred # <<>>
    /\ state.phases_completed # <<>>
    /\ state.current_phase # 1
    /\ inferred[1].chapters_completed > 0
(***************************************************************************)
(* Properties of the previous-chapter lookup.                              *)
(***************************************************************************)
\* the finalized and the draft artifacts of chapter n under either directory
Finals(n) == {<<dir, n, "final.md">> : dir \in ChapterDirs} \cap exists
Drafts(n) == {<<dir, n, "first_draft.md">> : dir \in ChapterDirs} \cap exists
Answered == ret # <<>> /\ call.op = "novel_get_previous_chapter_final"

\* C21: for n > 1 the lookup returns the finalized text of chapter n-1
\* whenever a finalized artifact of it exists under phase7_outputs or under
\* phase6_outputs, and a draft's text only when no finalized one exists.
C21_FinalUnderEitherConvention ==
    (Answered /\ call.chapter_number > 1 /\ _get_project_path \in exists) =>
        LET n == call.chapter_number - 1 IN
        /\ Finals(n) # {} => ret[1].text \in {Content(p) : p \in Finals(n)}
        /\ ret[1].text \in {Content(p) : p \in Drafts(n)} => Finals(n) = {}

\* C22: with n <= 1 the lookup returns "NONE" without asking the storage
\* for anything and without an error, whether the project exists or not; with
\* n > 1 in an existing project that holds neither a finalized nor a draft
\* artifact of chapter n-1 it returns "NONE" with the warning set.
C22_NoneForFirstOrMissing ==
    Answered =>
        LET n == call.chapter_number - 1 IN
        /\ call.chapter_number <= 1 =>
              /\ ret[1].text = NONE
              /\ ret[1].probed = {}
              /\ ret[1].raised = ""
        /\ (call.chapter_number > 1 /\ _get_project_path \in exists
               /\ Finals(n) = {} /\ Drafts(n) = {}) =>
              /\ ret[1].text = NONE
              /\ ret[1].warning
              /\ ret[1].raised = ""

\* chapter 1 was asked for in a missing project, and answered
C22_Witness ==
    /\ Answered
    /\ call.chapter_number = 1
    /\ exists = {}
    /\ ret[1].text = NONE
(***************************************************************************)
(* Properties of the manifest update.                                      *)
(***************************************************************************)
\* `after` is `patch` laid over `before`, key by key
RECURSIVE Overlaid(_, _, _)
Overlaid(before, patch, after) ==
    /\ DOMAIN after = DOMAIN before \cup DOMAIN patch
    /\ \A key \in DOMAIN after :
          IF key \notin DOMAIN patch THEN after[key] = before[key]
          ELSE IF key \in DOMAIN before /\ before[key].type = "dict"
                    /\ patch[key].type = "dict"
          THEN /\ after[key].type = "dict"
               /\ Overlaid(before[key].items, patch[key].items, after[key].items)
          ELSE after[key] = patch[key]

ExampleBefore == [a |-> JsonDict([b |-> JsonInt(0), c |-> JsonInt(2)])]
ExamplePatch == [a |-> JsonDict([b |-> JsonInt(1)])]
ExampleAfter == [a |-> JsonDict([b |-> JsonInt(1), c |-> JsonInt(2)])]

\* C26: an update leaves the manifest equal to the patch laid over the
\* manifest it found: a key that is a mapping on both sides is merged
\* recursively, any other key of the patch replaces the previous value whole
\* (a list is never concatenated), and a key absent from the patch keeps its
\* value; {a:{b:1}} merged into {a:{b:0,c:2}} gives {a:{b:1,c:2}}.
C26_UpdateIsRecursiveOverlay ==
    [][call.op = "novel_update_manifest" =>
          /\ (upd[ApiUpdater] = "scheduled" /\ upd'[ApiUpdater] = "read") =>
                manifest'[ApiUpdater] = project_json[1].text
          /\ upd[ApiUpdater] = "read" => manifest'[ApiUpdater] = manifest[ApiUpdater]
          /\ ManifestStoreStep(ApiUpdater) =>
                /\ project_json'[1].whole
                /\ Overlaid(manifest[ApiUpdater], call.patch, project_json'[1].text)
                /\ (manifest[ApiUpdater] = ExampleBefore /\ call.patch = ExamplePatch) =>
                      project_json'[1].text = ExampleAfter]_vars

\* {a:{b:1}} was merged into a manifest and the result {a:{b:1,c:2}} is stored
C26_Witness ==
    /\ call.op = "novel_update_manifest"
    /\ call.patch = ExamplePatch
    /\ upd[ApiUpdater] = "done"
    /\ project_json = Stored(ExampleAfter)
(***************************************************************************)
(* Properties of the outline parser and of the chapter list.               *)
(***************************************************************************)
Parsed == ret # <<>> /\ call.op = "novel_parse_outline" /\ outline_md # <<>>
\* the chapter headings of the stored outline, in the order met
Headings == SelectSeq(outline_md[1], LAMBDA line : line.kind = "heading")
DeclaredIncreasing ==
    \A k \in 1..(Len(Headings) - 1) : Headings[k].number < Headings[k + 1].number

\* C23: for an outline with N >= 1 chapter headings the parser emits N
\* chapters with the headings' titles in the order met; they are numbered 1..N
\* when the declared numbers hold a duplicate or decrease somewhere, and keep
\* their declared numbers when these are strictly increasing.
C23_RenumberedUnlessIncreasing ==
    (Parsed /\ Headings # <<>>) =>
        /\ Len(ret[1].chapters) = Len(Headings)
        /\ \A k \in 1..Len(Headings) :
              /\ ret[1].chapters[k].title = Strip(Headings[k].title)
              /\ ret[1].chapters[k].number =
                     IF DeclaredIncreasing THEN Headings[k].number ELSE k

\* an outline whose numbering restarts was parsed and renumbered
C23_Witness ==
    /\ Parsed
    /\ Len(Headings) = 3
    /\ Headings[1].number = 0 /\ Headings[2].number = 1 /\ Headings[3].number = 1
    /\ ret[1].chapters[3] = Chapter(3, <<"B">>)

\* C24: a parse that extracts at least one chapter patches the manifest so
\* that total_chapters is the number of emitted chapters and chapters is the
\* emitted list, every other key of the manifest and of its state keeping
\* its value; a parse without the outline artifact raises FileNotFoundError
\* and leaves the manifest as it was.
C24_ParsePatchesCountAndList ==
    [][call'.op = "novel_parse_outline" =>
          IF outline_md = <<>>
          THEN ret'[1].raised = "FileNotFoundError" /\ project_json' = project_json
          ELSE ret'[1].chapters # <<>> =>
                 LET before == project_json[1].text
                     after == project_json'[1].text
                     patched == {"total_chapters", "chapters"}
                 IN  /\ project_json'[1].whole
                     /\ after["state"].items["total_chapters"] = JsonInt(Len(ret'[1].chapters))
                     /\ after["state"].items["chapters"] = JsonList(ret'[1].chapters)
                     /\ DOMAIN after = DOMAIN before
                     /\ \A key \in DOMAIN before \ {"state"} : after[key] = before[key]
                     /\ DOMAIN after["state"].items = DOMAIN before["state"].items \cup patched
                     /\ \A key \in DOMAIN before["state"].items \ patched :
                           after["state"].items[key] = before["state"].items[key]]_vars

\* an older manifest was patched by a parse that extracted two chapters
C24_Witness ==
    /\ Parsed
    /\ Len(ret[1].chapters) = 2
    /\ project_json[1].whole
    /\ "current_chapter_number" \in DOMAIN project_json[1].text["state"].items
    /\ project_json[1].text["state"].items["total_chapters"] = JsonInt(2)

\* C25: whatever parses, imports and chapter updates have run, every chapter
\* of the manifest's list has a number >= 1 and no two share a number.
C25_ChapterNumbersPositiveUnique ==
    project_json[1].whole =>
        LET chapters == chapters_data(project_json[1].text) IN
        /\ \A k \in 1..Len(chapters) : chapters[k].number >= 1
        /\ \A j, k \in 1..Len(chapters) :
              chapters[j].number = chapters[k].number => j = k
(***************************************************************************)
(* Properties of the context bundle's sections.                            *)
(***************************************************************************)
\* the sections of a text in the order met: each level-2 heading line with the
\* lines below it up to the next level-2 heading, less the white space at its end
RECURSIVE SectionsFrom(_, _)
SectionsFrom(text, starts) ==
    IF starts = {} THEN <<>>
    ELSE LET k == First(starts)
             later == starts \ {k}
             end == IF later = {} THEN Len(text) ELSE First(later) - 1
         IN  <<rstrip(SubSeq(text, k, end))>> \o SectionsFrom(text, later)
Sections(text) == SectionsFrom(text, {k \in 1..Len(text) : next_h2_re(text[k])})

\* C27: an upsert of section STYLE_SHEET with a body that is not empty appends
\* the section after the existing ones, which stay as they are, when the
\* bundle has no section of that name; otherwise it replaces the body of that
\* section, and every other section keeps its header, its body and its place.
C27_UpsertChangesOneSection ==
    [][(call'.op = "generate_style_sheet_from_chapters" /\ strip(call'.style_sheet) # EMPTY) =>
          LET before == Sections(bundle_md)
              after == Sections(bundle_md')
              named == {k \in 1..Len(before) : header_re(before[k][1], STYLE_SHEET)}
              target == IF named = {} THEN Len(before) + 1 ELSE First(named)
          IN  /\ Len(after) = (IF named = {} THEN Len(before) + 1 ELSE Len(before))
              /\ \A k \in 1..Len(before) : k # target => after[k] = before[k]
              /\ header_re(after[target][1], STYLE_SHEET)
              /\ strip(Tail(after[target]) \o EMPTY) = strip(call'.style_sheet)]_vars

\* C28: from a bundle whose level-2 section headers are all different, every
\* sequence of section upserts and drafting-progress updates leaves a bundle
\* whose level-2 section headers are all different.
C28_SectionHeadersUnique == unique_headers(bundle_md)
(***************************************************************************)
(* Properties of artifact paths.                                           *)
(***************************************************************************)
\* C29: whatever artifact writes the controllers, the import and the artifact
\* update have made, none has written project.json or a file outside the
\* project directory.
C29_WritesStayOnArtifacts == touched \subseteq {"artifact"}

\* the segments of a path between separators of either kind
RECURSIVE Segments(_)
Segments(chars) ==
    LET seps == {k \in 1..Len(chars) : chars[k] \in {"/", "\\"}} IN
    IF seps = {} THEN <<chars>>
    ELSE <<SubSeq(chars, 1, First(seps) - 1)>>
             \o Segments(SubSeq(chars, First(seps) + 1, Len(chars)))
Sanitized == call.op = "import_into_project" /\ ret # <<>>

\* C30: the sanitizer raises for the empty path, for a path that starts with
\* a separator, for a path with a ".." segment and for a path whose last
\* segment is project.json; a path it accepts comes back with forward
\* slashes only and without an empty, "." or ".." segment.
C30_SanitizerRejectsAndNormalizes ==
    Sanitized =>
        LET raw == Strip(call.path)
            segments == Segments(raw)
            rejected == ret[1].raised = "ValueError"
            returned == Segments(ret[1].path)
        IN  /\ raw = <<>> => rejected
            /\ (raw # <<>> /\ raw[1] \in {"/", "\\"}) => rejected
            /\ (\E k \in 1..Len(segments) : segments[k] = <<".", ".">>) => rejected
            /\ segments[Len(segments)] = <<"project.json">> => rejected
            /\ ~rejected =>
                  /\ \A k \in 1..Len(ret[1].path) : ret[1].path[k] # "\\"
                  /\ \A k \in 1..Len(returned) :
                        returned[k] \notin {<<>>, <<".">>, <<".", ".">>}

\* a path with a backslash, a "." segment and a doubled separator was
\* accepted and came back normalized
C30_Witness ==
    /\ Sanitized
    /\ call.path \in {<<"a", "\\", "/", "a">>, <<".", "\\", "a", " ">>}
    /\ ret[1].raised = ""
    /\ ret[1].path \in {<<"a", "/", "a">>, <<"a">>}

(***************************************************************************)
(* Properties of the runs without, before and after a human response.      *)
(***************************************************************************)
\* a decision request is published by this step of the chapter-writing controller
FinalReviewPublished ==
    /\ kind = "final_chapter"
    /\ pc # "wait_decision"
    /\ pc' = "wait_decision"

\* C37: in a chapter-writing run the final-review wait is satisfied only by a
\* response delivered after the final-review request was published: when the
\* request is published no response in the inbox satisfies the wait, so an
\* early or duplicate decision never ends the final review.
C37_FinalReviewNeedsLaterResponse ==
    [][ FinalReviewPublished =>
            ~(\E i \in 1..Len(human_inputs') : Matches(human_inputs'[i], {"decision"})) ]_vars

\* C35: a Phase 1 run started with genre, book title and initial ideas goes
\* on to completion without an inbound response: it is never suspended on a
\* wait whose condition no response has satisfied.
C35_InitialSetupNeedsNoResponse ==
    (kind = "context_bundle" /\ inputs_complete /\ Running) =>
        ~(pc \in WaitPcs /\ ~WaitSatisfied)

\* the lines of a text
LinesOf(text) == {text[k] : k \in 1..Len(text)}

\* where a text has the "### Chapter N" header of a chapter
HeadersOf(text, number) == {k \in 1..Len(text) : chapter_header_re(text[k], number)}

\* a chapter is written again: the step before saved the same chapter, whose
\* header the bundle has once
ChapterRewritten ==
    /\ call.op = "_update_context_bundle_with_chapter"
    /\ call'.op = "_update_context_bundle_with_chapter"
    /\ call'.chapter_number = call.chapter_number
    /\ edits' = edits + 1
    /\ Cardinality(HeadersOf(bundle_md, call.chapter_number)) = 1

\* C38: after chapter-writing runs of one project, one at a time, the context
\* bundle holds exactly one "### Chapter N" entry for a chapter N written, the
\* entry holds the text of the most recent final of N, and no text of an
\* earlier final of N remains anywhere in the bundle, also when the chapter
\* texts begin with a level-2 heading: when a chapter is written again, the
\* bundle has one header of it, the new text follows the header, and no line
\* that only the earlier final had is left.
C38_BundleHoldsLatestFinalOnly ==
    [][ ChapterRewritten =>
           LET number == call'.chapter_number
               text == strip(call'.final_chapter)
               heads == HeadersOf(bundle_md', number)
           IN  /\ Cardinality(heads) = 1
               /\ \A k \in heads :
                     /\ k + 1 + Len(text) <= Len(bundle_md')
                     /\ SubSeq(bundle_md', k + 2, k + 1 + Len(text)) = text
               /\ (LinesOf(call.final_chapter) \ LinesOf(call'.final_chapter))
                      \cap LinesOf(bundle_md') = {} ]_vars

\* a phase-status request is answered by this step
StatusAnswered ==
    /\ call'.op = "get_phase_status"
    /\ <<call, ret>>' # <<call, ret>>

\* C39: a phase-status request answered without a live controller reports a
\* phase completed exactly when the phase's completion predicate over the
\* artifacts that exist holds, whatever the stored phases_completed says.
C39_StatusFollowsArtifacts ==
    [][ StatusAnswered =>
           (ret'[1].status = "completed"
               <=> phase_completed_map(exists', state')[call'.phase]) ]_vars

\* the drafts of the chapter that exist
DraftsWritten == {f \in {"first_draft.md", "revised_draft.md"} : artifacts[f] # <<>>}

\* the Final step has saved a final in this step
FinalSaved ==
    /\ workflow' = "Phase7FinalWorkflow"
    /\ outcome' = "completed"
    /\ artifacts' # artifacts

\* C40: in the step-wise chapter pipeline the Final step is generated from
\* the most recently produced draft of the chapter: of first_draft.md and
\* revised_draft.md, the one generated last.
C40_FinalUsesLatestDraft ==
    [][ FinalSaved =>
           \A f \in DraftsWritten : artifacts[f][1].n <= artifacts'["final.md"][1].from ]_vars

(***************************************************************************)
(* Runs of four phase controllers followed activity by activity: every     *)
(* execute_activity call with its retry policy, and the workflow code      *)
(* between two calls.                                                      *)
(***************************************************************************)
RunWorkflows ==
    {"Phase1InitialSetupWorkflow", "Phase2BrainstormingWorkflow",
     "Phase5ContextBundleTagsWorkflow", "Phase5ChapterOutlineWorkflow"}

\* the artifacts these runs save; phase5_outputs/outline.md is outline_md
RunFiles ==
    {"phase1_outputs/genre_tropes.md", "phase1_outputs/style_sheet.md",
     "phase1_outputs/context_bundle.md", "phase1_outputs/context_bundle_tags.json",
     "phase2_outputs/series_outline.md", "phase2_outputs/series_constraints.json",
     "phase2_outputs/series_outline_audit.md", "phase6_outputs/outline.md"}

\* the local variables of the four run() methods
RunLocals ==
    {"genre_tropes", "style_sheet", "context_bundle", "series_outline", "constraints_json",
     "risk_audit", "updated_context_bundle", "outline", "raw_tags", "corrected", "tags_json",
     "context_bundle_tags_json", "chapters_parsed"}

\* A text is its lines, written as the lines of outline.md are: "text" is
\* prose, "loose" a line that holds "### Chapter" and does not match
\* chapter_pattern (### Chapter One: ...), "json" a JSON document, whose
\* number is the indent it is written with.
Prose == <<OutlineLine("text", 0, <<>>)>>
JsonText(indent) == <<OutlineLine("json", indent, <<>>)>>

\* json.loads(text) returns
json_loads(text) == Len(text) = 1 /\ text[1].kind = "json"
\* json.dumps(json.loads(text), indent=2, ensure_ascii=False)
json_dumps(text) == JsonText(2)

\* what the generation capability may answer to the prompt of a call
Generated(into) ==
    IF into \in {"raw_tags", "corrected"} THEN {JsonText(0), Prose}
    ELSE IF into = "outline"
    THEN {<<>>, Prose, <<OutlineLine("loose", 0, <<>>)>>,
          <<OutlineLine("row", 1, <<"R">>)>>,
          <<OutlineLine("heading", 1, <<"A">>)>>,
          <<OutlineLine("heading", 1, <<"A">>), OutlineLine("text", 0, <<>>),
            OutlineLine("heading", 2, <<"B">>)>>}
    ELSE {Prose}

\* workflow.execute_activity(activity, args=[project_id, path, ...],
\* retry_policy=RetryPolicy(maximum_attempts=n)): `into` is the local the
\* result is bound to (for a save, the local that is saved), maximum_attempts
\* 0 is a call without retry_policy (the default policy: no limit), caught is
\* a call inside try/except Exception.
Activity(line, activity, path, into, maximum_attempts, caught) ==
    [line |-> line, activity |-> activity, path |-> path, into |-> into,
     maximum_attempts |-> maximum_attempts, caught |-> caught]

\* the calls of run(), in the order of a run with all inputs given, with
\* auto_approve where the input has it, an approval where it has not, and
\* run_risk_audit set
Calls(name) ==
    IF name = "Phase1InitialSetupWorkflow"
    THEN <<Activity(169, "web_search_activity", "", "genre_tropes", 3, FALSE),
           Activity(194, "save_artifact_activity", "phase1_outputs/genre_tropes.md", "genre_tropes", 0, FALSE),
           Activity(223, "llm_generate_activity", "", "style_sheet", 0, FALSE),
           Activity(238, "save_artifact_activity", "phase1_outputs/style_sheet.md", "style_sheet", 0, FALSE),
           Activity(319, "llm_generate_activity", "", "context_bundle", 0, FALSE),
           Activity(346, "human_input_activity", "", "", 1, FALSE),
           Activity(372, "wait_condition", "", "", 0, FALSE),
           Activity(259, "save_artifact_activity", "phase1_outputs/context_bundle.md", "context_bundle", 0, FALSE)>>
    ELSE IF name = "Phase2BrainstormingWorkflow"
    THEN <<Activity(95, "load_artifact_activity", "phase1_outputs/context_bundle.md", "context_bundle", 2, FALSE),
           Activity(288, "llm_generate_activity", "", "series_outline", 3, FALSE),
           Activity(119, "llm_generate_activity", "", "constraints_json", 3, FALSE),
           Activity(164, "llm_generate_activity", "", "risk_audit", 3, FALSE),
           Activity(204, "save_artifact_activity", "phase2_outputs/series_outline.md", "series_outline", 0, FALSE),
           Activity(210, "save_artifact_activity", "phase2_outputs/series_constraints.json", "constraints_json", 0, FALSE),
           Activity(217, "save_artifact_activity", "phase2_outputs/series_outline_audit.md", "risk_audit", 0, FALSE),
           Activity(227, "llm_generate_activity", "", "updated_context_bundle", 3, FALSE),
           Activity(260, "save_artifact_activity", "phase1_outputs/context_bundle.md", "updated_context_bundle", 0, FALSE)>>
    ELSE IF name = "Phase5ContextBundleTagsWorkflow"
    THEN <<Activity(236, "load_artifact_activity", "phase1_outputs/context_bundle.md", "context_bundle", 2, FALSE),
           Activity(245, "load_artifact_activity", "phase5_outputs/outline.md", "outline", 1, TRUE),
           Activity(256, "llm_generate_activity", "", "raw_tags", 3, FALSE),
           Activity(310, "llm_generate_activity", "", "corrected", 2, FALSE),
           Activity(335, "save_artifact_activity", "phase1_outputs/context_bundle_tags.json", "tags_json", 3, FALSE)>>
    ELSE <<Activity(98, "load_artifact_activity", "phase1_outputs/context_bundle.md", "context_bundle", 2, FALSE),
           Activity(106, "load_artifact_optional_activity", "phase1_outputs/context_bundle_tags.json", "context_bundle_tags_json", 1, FALSE),
           Activity(224, "llm_generate_activity", "", "outline", 3, FALSE),
           Activity(138, "save_artifact_activity", "phase6_outputs/outline.md", "outline", 0, FALSE),
           Activity(148, "llm_generate_activity", "", "updated_context_bundle", 3, FALSE),
           Activity(182, "save_artifact_activity", "phase1_outputs/context_bundle.md", "updated_context_bundle", 0, FALSE),
           Activity(192, "parse_outline_activity", "phase5_outputs/outline.md", "chapters_parsed", 2, FALSE)>>

\* the call run() is suspended on
Suspended == Calls(workflow)[suspended_at]

\* novel_read_text of an artifact: <<>> (FileNotFoundError) or <<its text>>
novel_read_text(path) ==
    IF path = "phase5_outputs/outline.md" THEN outline_md ELSE artifacts[path]

\* what the workflow code does when a call is over: go on to call `to`
\* (past the last call: return), or raise
GoOn(to, variables) == [to |-> to, raised |-> FALSE, locals |-> variables]
Raise(variables) == [to |-> 0, raised |-> TRUE, locals |-> variables]

\* a tags step that saves the corrected answer as it came
validating_corrected_unparsed(variables) ==
    GoOn(5, [variables EXCEPT !["tags_json"] = variables["corrected"]])

\* Phase5ContextBundleTagsWorkflow.run after the corrective call:
\* parsed = json.loads(corrected); tags_json = json.dumps(parsed, ...)
validating_corrected(variables) ==
    IF json_loads(variables["corrected"])
    THEN GoOn(5, [variables EXCEPT !["tags_json"] = json_dumps(variables["corrected"])])
    ELSE Raise(variables)

\* Phase5ContextBundleTagsWorkflow.run after the tags call: tags_json =
\* raw_tags; try json.loads / json.dumps; except: the corrective call
validating_tags(variables) ==
    IF json_loads(variables["raw_tags"])
    THEN GoOn(5, [variables EXCEPT !["tags_json"] = json_dumps(variables["raw_tags"])])
    ELSE GoOn(4, [variables EXCEPT !["tags_json"] = variables["raw_tags"]])

\* Phase5ChapterOutlineWorkflow.run after _generate_chapter_outline: the two
\* ValueErrors (a text of lines is blank when it has no line)
outline_checked(variables) ==
    LET outline == variables["outline"] IN
    IF outline = <<>> THEN Raise(variables)
    ELSE IF ~\E k \in 1..Len(outline) : outline[k].kind \in {"heading", "loose"}
    THEN Raise(variables)
    ELSE GoOn(4, variables)

\* the code of run() between call `index` and the next call
Continue(name, index, variables) ==
    IF name = "Phase5ContextBundleTagsWorkflow" /\ index = 3 THEN validating_tags(variables)
    ELSE IF name = "Phase5ContextBundleTagsWorkflow" /\ index = 4 THEN validating_corrected(variables)
    ELSE IF name = "Phase5ChapterOutlineWorkflow" /\ index = 3 THEN outline_checked(variables)
    ELSE GoOn(index + 1, variables)

\* run() goes on after a call: an exception that is no Temporal failure
\* fails the workflow task and the run stays open; past the last call the
\* run returns status "completed"
Resume(variables) ==
    LET next == Continue(workflow, suspended_at, variables) IN
    /\ locals' = next.locals
    /\ IF next.raised
       THEN /\ outcome' = "blocked"
            /\ UNCHANGED <<suspended_at, attempt>>
       ELSE IF next.to > Len(Calls(workflow))
       THEN /\ outcome' = "completed"
            /\ UNCHANGED <<suspended_at, attempt>>
       ELSE /\ suspended_at' = next.to
            /\ attempt' = 1
            /\ UNCHANGED outcome

\* an attempt of the activity raises: load_artifact_activity and
\* parse_outline_activity when the file is missing, the generation and
\* search capabilities whenever they fail
Raises(activity, path) ==
    IF activity \in {"load_artifact_activity", "parse_outline_activity"}
    THEN novel_read_text(path) = <<>>
    ELSE activity \in {"llm_generate_activity", "web_search_activity"}

\* the retry policy allows another attempt
MayRetry(maximum_attempts) ==
    IF maximum_attempts = 0 THEN attempt < MaxAttempts ELSE attempt < maximum_attempts

\* load_artifact_optional_activity: the workflows import it, activities.py
\* does not hold it; as its callers use it, "" stands for a missing artifact
load_artifact_optional_activity(path) ==
    IF novel_read_text(path) = <<>> THEN <<>> ELSE novel_read_text(path)[1]

\* the values an attempt may return; a save, a request and a wait return None
Returned(activity, path, into) ==
    IF activity = "load_artifact_activity"
    THEN {novel_read_text(path)[1]}
    ELSE IF activity = "load_artifact_optional_activity"
    THEN {load_artifact_optional_activity(path)}
    ELSE IF activity \in {"llm_generate_activity", "web_search_activity"}
    THEN Generated(into)
    ELSE IF activity = "parse_outline_activity"
    THEN {Len(novel_parse_outline(outline_md[1]))}
    ELSE {<<>>}

\* an attempt of the activity run() is suspended on returns
ActivityReturns ==
    /\ workflow \in RunWorkflows
    /\ outcome = "running"
    /\ LET activity == Suspended.activity
           path == Suspended.path
           into == Suspended.into
       IN  /\ ~(activity \in {"load_artifact_activity", "parse_outline_activity"}
                /\ novel_read_text(path) = <<>>)
           /\ \E value \in Returned(activity, path, into) :
                /\ artifacts' = IF activity = "save_artifact_activity"
                                THEN [artifacts EXCEPT ![path] = <<locals[into]>>]
                                ELSE artifacts
                /\ project_json' =
                       IF activity = "parse_outline_activity" /\ value > 0
                       THEN Stored(deep_merge(project_json[1].text,
                                              ParsePatch(novel_parse_outline(outline_md[1]))))
                       ELSE project_json
                /\ Resume(IF into = "" \/ activity = "save_artifact_activity"
                          THEN locals ELSE [locals EXCEPT ![into] = value])
    /\ UNCHANGED <<controllerVars, inferVars, callVars, workflow, chapter_number, ipc,
                   context_bundle, act, upd, manifest, files, bundle_file>>

\* an attempt raises and the retry policy starts another one
ActivityRetried ==
    /\ workflow \in RunWorkflows
    /\ outcome = "running"
    /\ Raises(Suspended.activity, Suspended.path)
    /\ MayRetry(Suspended.maximum_attempts)
    /\ attempt' = attempt + 1
    /\ UNCHANGED <<controllerVars, vaultVars, inferVars, callVars, workflow, suspended_at,
                   outcome, locals, artifacts>>

\* the last attempt raises: execute_activity raises ActivityError, which
\* fails the run unless the call is inside try/except (the local is then "")
ActivityFailed ==
    /\ workflow \in RunWorkflows
    /\ outcome = "running"
    /\ Raises(Suspended.activity, Suspended.path)
    /\ Suspended.maximum_attempts # 0
    /\ attempt >= Suspended.maximum_attempts
    /\ IF Suspended.caught
       THEN /\ Resume([locals EXCEPT ![Suspended.into] = <<>>])
       ELSE /\ outcome' = "failed"
            /\ UNCHANGED <<suspended_at, attempt, locals>>
    /\ UNCHANGED <<controllerVars, vaultVars, inferVars, callVars, workflow, artifacts>>

NextRun == ActivityReturns \/ ActivityRetried \/ ActivityFailed

\* a project with or without a context bundle and with or without an
\* outline at phase5_outputs/outline.md, and one of the four runs started
InitRun ==
    /\ Elsewhere
    /\ NoExecution
    /\ upd = [u \in Updaters |-> "none"]
    /\ project_json = Stored(NewManifest)
    /\ ProjectStart
    /\ call = [op |-> "none"]
    /\ ret = <<>>
    /\ outline_md \in {<<>>, <<Prose>>, <<<<OutlineLine("heading", 1, <<"O">>)>>>>}
    /\ NoText
    /\ workflow \in RunWorkflows
    /\ suspended_at = 1
    /\ attempt = 1
    /\ outcome = "running"
    /\ locals = [name \in RunLocals |-> IF name = "chapters_parsed" THEN 0 ELSE <<>>]
    /\ \E bundle \in {<<>>, <<Prose>>} :
          artifacts = [path \in RunFiles |->
                          IF path = "phase1_outputs/context_bundle.md" THEN bundle ELSE <<>>]

RunSpec == InitRun /\ [][NextRun]_vars

(***************************************************************************)
(* Properties of the runs followed activity by activity.                   *)
(***************************************************************************)
\* run() is suspended on a call of the activity
SuspendedOn(activity) ==
    /\ workflow \in RunWorkflows
    /\ outcome = "running"
    /\ Suspended.activity = activity

\* C31: a load that meets a missing artifact (NotFound) is not retried: the
\* failing load is attempted once per step execution, so a run suspended on
\* a load of a missing artifact is always at its first attempt.
C31_NotFoundNotRetried ==
    (SuspendedOn("load_artifact_activity") /\ novel_read_text(Suspended.path) = <<>>)
        => attempt = 1

\* an attempt of a generation call has raised in this step
GenerationRaised ==
    /\ SuspendedOn("llm_generate_activity")
    /\ attempt' = attempt + 1 \/ outcome' = "failed"

\* C32: every generation call of a phase controller is attempted at most 3
\* times, and after the last failed attempt the run fails instead of going
\* on: no fourth attempt is started, and a third attempt that raises leaves
\* the run failed.
C32_GenerationAttemptsBounded ==
    [][ GenerationRaised =>
            /\ attempt' <= 3
            /\ attempt >= 3 => outcome' = "failed" ]_vars

\* the run followed is one of the tags step
TagsRun == workflow = "Phase5ContextBundleTagsWorkflow"
TagsPath == "phase1_outputs/context_bundle_tags.json"

OutlineRun == workflow = "Phase5ChapterOutlineWorkflow"

\* C34: the chapter-outline controller does not complete with an approved
\* outline from which the parser extracts no chapter, nor with zero
\* chapters parsed.
C34_NoCompletionWithoutChapters ==
    (OutlineRun /\ outcome = "completed") =>
        /\ locals["chapters_parsed"] > 0
        /\ novel_parse_outline(locals["outline"]) # <<>>

\* C36: once the chapter-outline controller has saved the approved outline
\* and run its parse step, the parse step has not failed and the manifest's
\* chapter list and total are the ones of the outline just saved.
C36_ParseReadsSavedOutline ==
    (OutlineRun /\ suspended_at = 7 /\ outcome \in {"completed", "failed"}) =>
        LET saved == novel_parse_outline(artifacts["phase6_outputs/outline.md"][1]) IN
        /\ outcome = "completed"
        /\ chapters_data(project_json[1].text) = saved
        /\ project_json[1].text["state"].items["total_chapters"] = JsonInt(Len(saved))
====
